---- MODULE Spec2Model ----
(***************************************************************************)
(* Model of rng-viz: the streaming randomness-anomaly engine               *)
(* (rng_viz/analysis/stats.py).                                            *)
(*                                                                         *)
(* Numeric conventions.  Python floats are modelled in fixed point:        *)
(*   - a p-value is an integer number of millionths (ppm), 0..1000000;     *)
(*   - a z-score is a signed integer number of thousandths (milli);        *)
(*   - the chi-square statistic is an integer number of hundredths.        *)
(* All intermediate products stay below 2^31.                              *)
(***************************************************************************)
EXTENDS Integers, Sequences, FiniteSets, TLC

(***************************************************************************)
(* Bounds of the model.                                                    *)
(***************************************************************************)
\* largest window capacity of the free-input specification
MaxWindow == 3
\* number of add_byte calls explored by the free-input specification
MaxBytes == 4
\* number of add_byte calls made after the window has filled (scripted streams)
ExtraBytes == 2

\* window capacity of the analyzer in the application runs (the application
\* constructs it with window_size=1000; the runs are scaled down)
AppWindow == 3
\* bytes the device hands out in an application run
MaxUnits == 20
\* data rows of a replayed file
MaxRecords == 10
\* turns a game goes through
MaxTurns == 2
\* shutdown requests made in an application run
MaxRequests == 2
\* anomalies counted in a game played call by call
MaxAdds == 3
\* records written to a capture file by the writer on its own
MaxRows == 2
\* names in a path given to resolve_capture_path
MaxDepth == 2
\* files and directories that exist before the call
MaxEntries == 2

(***************************************************************************)
(* Program constants.                                                      *)
(***************************************************************************)
\* default sensitivity 0.01, in ppm
DefaultSensitivity == 10000
\* sensitivity 0.05 used by test_analysis, in ppm
TestSensitivity == 50000
\* window_size used by test_analysis
TestWindowSize == 100
\* minimum number of bytes for the chi-square test
ChiSquareMinBytes == 50
\* degrees of freedom of the chi-square test
dof == 255
\* number of histogram bins (np.bincount minlength)
NumBins == 256

\* the loops forward every 10th unit
viz_update_frequency == 10
\* chunk size the capture loops ask the device for
chunk_size == 10

\* byte values fed by the free-input specification
ByteInputs == {0, 255, 85, 15}

VARIABLES
    window_size,    \* RandomnessAnalyzer.window_size (StatisticalWindow.window_size)
    sensitivity,    \* RandomnessAnalyzer.sensitivity, in ppm
    data,           \* StatisticalWindow.data, oldest byte first
    position,       \* RandomnessAnalyzer.position
    anomalies,      \* RandomnessAnalyzer.anomalies
    result,         \* list returned by the last add_byte call
    evaluated,      \* the tests entered by the last add_byte call, in call order
    raised,         \* exception raised by the last add_byte call, "" if none
    added,          \* history: every byte passed to add_byte so far
    stream,         \* scripted input: the period of the byte stream, <<>> if free
    classified,     \* history: the last two _get_significance_level calls
    summary         \* the last get_summary_stats call since the last add_byte

\* the application (rng_viz/ui/app.py) and what it drives
VARIABLES
    mode,               \* "live", "file", "game", "game_file"; "none": no app run
    connect_outcome,    \* what TrueRNGDevice.connect will do: "ok", "false", "raise"
    save_path,          \* a capture file was asked for
    open_outcome,       \* what opening the capture file will do: "ok", "raise"
    header,             \* first line of the capture file written or replayed
    file,               \* the data rows of the replayed file
    lines,              \* the lines of the capture file after the first, as text
    fs,                 \* the file system: what is at each path
    resolved,           \* the last resolve_capture_path call and its outcome
    mounted,            \* on_mount has run (self._loop is set)
    setup,              \* position of the scheduled setup_* coroutine
    is_paused,          \* RNGVisualizerApp.is_paused
    shutting_down,      \* RNGVisualizerApp._shutting_down
    exited,             \* the application has exited, its event loop is stopped
    device,             \* self.device is set
    is_connected,       \* TrueRNGDevice.is_connected
    serial_open,        \* TrueRNGDevice.serial_conn is open
    serial_closes,      \* number of serial_conn.close() calls
    dev_offset,         \* bytes handed out by the device so far
    gen,                \* the stream_bytes generator: "none", "started", "closed"
    analyzer,           \* an analyzer has been constructed for this run
    writer,             \* self.writer is set
    csv_file,           \* BitstreamWriter.csv_file: "none", "open", "closed"
    file_closes,        \* number of csv_file.close() calls
    rows,               \* the data rows written to the capture file
    reader,             \* self.reader is set
    read_idx,           \* rows handed out by iter_records so far
    capture_task,       \* position of the capture / playback task
    viz_update_counter, \* the loop's local counter
    points,             \* BitstreamVisualizer: the points forwarded, oldest first
    stats_updates,      \* number of StatsDisplay.update_stats calls
    processed,          \* history: the units processed, by their place in the source
    notified,           \* history: the kinds of error notifications shown
    game_timer_task,    \* position of the turn-timer task
    game_state,         \* RNGVisualizerApp.game_state
    req                 \* the shutdown requests made so far

\* what a run is given, less the first line of the file
givenvars == <<mode, connect_outcome, save_path, open_outcome, file, lines, fs,
               resolved>>

envvars == <<givenvars, header>>

appvars == <<envvars, mounted, setup, is_paused, shutting_down, exited,
             device, is_connected, serial_open, serial_closes, dev_offset, gen,
             analyzer, writer, csv_file, file_closes, rows, reader, read_idx,
             capture_task, viz_update_counter, points, stats_updates, processed,
             notified, game_timer_task, game_state, req>>

vars == <<window_size, sensitivity, data, position, anomalies, result,
          evaluated, raised, added, stream, classified, summary, appvars>>

\* no get_summary_stats call since the last add_byte
NoSummary == [called |-> FALSE, value |-> <<>>]

(***************************************************************************)
(* Fixed-point helpers.                                                    *)
(***************************************************************************)
Abs(x) == IF x < 0 THEN -x ELSE x

RECURSIVE ISqrtIter(_, _, _)
ISqrtIter(x, lo, hi) ==
    IF lo >= hi THEN lo
    ELSE LET mid == (lo + hi + 1) \div 2
         IN IF mid * mid <= x THEN ISqrtIter(x, mid, hi)
                              ELSE ISqrtIter(x, lo, mid - 1)

\* floor of the square root (math.sqrt), for 0 <= x < 2^31
ISqrt(x) == ISqrtIter(x, 0, 46340)

\* signed division truncating toward zero after scaling
SDiv(a, b) == IF a < 0 THEN -((-a) \div b) ELSE a \div b

\* a * b / c for a, b, c >= 0 without forming the product a * b
MulDiv(a, b, c) == (a \div c) * b + ((a % c) * b) \div c

(***************************************************************************)
(* scipy.stats.norm: two-tailed p-value 2 * (1 - cdf(|z|)) in ppm, tabulated*)
(* every 0.05 of |z| from 0 to 5 and interpolated linearly in between.     *)
(***************************************************************************)
NormTailTable ==
    <<1000000, 960122, 920344, 880765, 841481, 802587, 764177, 726339,
      689157, 652710, 617075, 582319, 548506, 515692, 483927, 453255,
      423711, 395325, 368120, 342112, 317311, 293718, 271332, 250144,
      230139, 211300, 193601, 177016, 161513, 147059, 133614, 121142,
      109599, 98943, 89131, 80118, 71861, 64314, 57433, 51176, 45500,
      40364, 35729, 31555, 27807, 24449, 21448, 18773, 16395, 14286,
      12419, 10772, 9322, 8049, 6934, 5960, 5110, 4372, 3732, 3178, 2700,
      2288, 1935, 1633, 1374, 1154, 967, 808, 674, 561, 465, 385, 318,
      262, 216, 177, 145, 118, 96, 78, 63, 51, 41, 33, 27, 21, 17, 14, 11,
      9, 7, 5, 4, 3, 3, 2, 2, 1, 1, 1, 1>>

two_tailed_p(z_milli) ==
    LET a == Abs(z_milli)
        i == a \div 50
        r == a % 50
    IN IF i + 1 >= Len(NormTailTable) THEN 0
       ELSE LET hi == NormTailTable[i + 1]
                lo == NormTailTable[i + 2]
            IN hi - ((hi - lo) * r) \div 50

(***************************************************************************)
(* scipy.stats.chi2: upper tail 1 - cdf(x, 255) in ppm, tabulated every 2  *)
(* units of x from 190 to 370 and interpolated linearly in between.        *)
(***************************************************************************)
Chi2TailTable ==
    <<999147, 998775, 998264, 997572, 996647, 995425, 993834, 991786,
      989183, 985913, 981854, 976874, 970832, 963583, 954981, 944882,
      933151, 919662, 904311, 887013, 867712, 846383, 823034, 797711,
      770499, 741516, 710922, 678905, 645686, 611509, 576635, 541341,
      505905, 470609, 435723, 401506, 368197, 336012, 305139, 275738,
      247935, 221829, 197482, 174931, 154181, 135215, 117992, 102450,
      88515, 76098, 65101, 55420, 46949, 39581, 33208, 27728, 23042,
      19057, 15688, 12854, 10484, 8511, 6879, 5534, 4432, 3534, 2806,
      2218, 1745, 1368, 1067, 829, 642, 495, 380, 290, 221, 167, 127, 95,
      71, 53, 40, 29, 22, 16, 12, 9, 6, 4, 3>>

chi2_upper_p(chi2_centi) ==
    IF chi2_centi < 19000 THEN 1000000
    ELSE LET a == chi2_centi - 19000
             i == a \div 200
             r == a % 200
         IN IF i + 1 >= Len(Chi2TailTable) THEN 0
            ELSE LET hi == Chi2TailTable[i + 1]
                     lo == Chi2TailTable[i + 2]
                 IN hi - ((hi - lo) * r) \div 200

(***************************************************************************)
(* AnomalyResult                                                           *)
(***************************************************************************)
AnomalyResult(pos, z, p, sig, type) ==
    [position |-> pos, z_score |-> z, p_value |-> p,
     significance_level |-> sig, test_type |-> type]

(***************************************************************************)
(* StatisticalWindow                                                       *)
(***************************************************************************)
\* an unbounded list in place of the deque: nothing is ever discarded
window_add_byte_NoEvict(d, N, byte_val) == d \o <<byte_val>>

\* deque(maxlen=N).append: the oldest element is discarded at capacity
window_add_byte(d, N, byte_val) ==
    IF N = 0 THEN <<>>
    ELSE IF Len(d) >= N THEN Tail(d) \o <<byte_val>>
    ELSE d \o <<byte_val>>

\* full one byte early (never while empty)
is_full_Early(d, N) == Len(d) >= 1 /\ Len(d) >= N - 1

is_full(d, N) == Len(d) = N

\* bit i of a byte: (byte_val >> i) & 1
BitOf(byte_val, i) == (byte_val \div (2 ^ i)) % 2

\* only bit 0 of every byte
get_bits_OneBitPerByte(d) == [k \in 1..Len(d) |-> BitOf(d[k], 0)]

\* all bits of the window: bytes in insertion order, each byte LSB first
get_bits(d) ==
    [k \in 1..(8 * Len(d)) |-> BitOf(d[((k - 1) \div 8) + 1], (k - 1) % 8)]

\* sum(bits)
SumBits(bits) == Cardinality({k \in DOMAIN bits : bits[k] = 1})

(***************************************************************************)
(* RandomnessAnalyzer                                                      *)
(***************************************************************************)
\* the tiers in an order that is not ascending by threshold
significance_levels_Misordered ==
    <<[threshold |-> 50000, symbol |-> "*"],
      [threshold |-> 10000, symbol |-> "**"],
      [threshold |-> 1000, symbol |-> "***"],
      [threshold |-> 1000000, symbol |-> ""]>>

\* self.significance_levels, in the insertion order a dict iterates in
significance_levels ==
    <<[threshold |-> 1000, symbol |-> "***"],
      [threshold |-> 10000, symbol |-> "**"],
      [threshold |-> 50000, symbol |-> "*"],
      [threshold |-> 1000000, symbol |-> ""]>>

RECURSIVE ScanLevels(_, _, _)
ScanLevels(levels, i, p_value) ==
    IF i > Len(levels) THEN ""
    ELSE IF p_value < levels[i].threshold THEN levels[i].symbol
    ELSE ScanLevels(levels, i + 1, p_value)

get_significance_level(p_value) == ScanLevels(significance_levels, 1, p_value)

\* the outcome of one test: the anomalies it returns, or the exception raised
Returned(anoms) == [anoms |-> anoms, raised |-> ""]
Raised(exc) == [anoms |-> <<>>, raised |-> exc]

\* a hard-coded 0.05 in place of the configured sensitivity
Flag_FixedThreshold(pos, z_score, p_value, sens, type) ==
    IF p_value < TestSensitivity
    THEN Returned(<<AnomalyResult(pos, z_score, p_value,
                                  get_significance_level(p_value), type)>>)
    ELSE Returned(<<>>)

\* the tail shared by the three tests: report iff p_value < sensitivity
Flag(pos, z_score, p_value, sens, type) ==
    IF p_value < sens
    THEN Returned(<<AnomalyResult(pos, z_score, p_value,
                                  get_significance_level(p_value), type)>>)
    ELSE Returned(<<>>)

\* z = (p_hat - 0.5) / sqrt(0.25 / n_bits) = (2 * n_ones - n_bits) / sqrt(n_bits)
frequency_z(n_ones, n_bits) ==
    SDiv((2 * n_ones - n_bits) * 1000000, ISqrt(n_bits * 1000000))

test_frequency(d, pos, sens) ==
    LET bits == get_bits(d)
        n_bits == Len(bits)
        n_ones == SumBits(bits)
    IN IF n_bits = 0 THEN Raised("ZeroDivisionError")
       ELSE LET z_score == frequency_z(n_ones, n_bits)
                p_value == two_tailed_p(z_score)
            IN Flag(pos, z_score, p_value, sens, "frequency")

\* runs = 1 + number of adjacent unequal bits
count_runs(bits) ==
    1 + Cardinality({i \in 2..Len(bits) : bits[i] # bits[i - 1]})

\* the expected run count without its + 1
expected_runs_NoPlusOne(n_ones, n_zeros, n) == (2 * n_ones * n_zeros * 1000) \div n

\* expected_runs = 2 * n_ones * n_zeros / n + 1, in milli
expected_runs(n_ones, n_zeros, n) == (2 * n_ones * n_zeros * 1000) \div n + 1000

\* variance = 2*n1*n0 * (2*n1*n0 - n) / (n * n * (n - 1)), in micro
runs_variance(n_ones, n_zeros, n) ==
    LET a == 2 * n_ones * n_zeros
        e_milli == (a * 1000) \div n
        den == n * (n - 1)
        num == Abs(a - n)
        q1 == (num * 1000) \div den
        r1 == (num * 1000) % den
        q_micro == q1 * 1000 + (r1 * 1000) \div den
        mag == (e_milli \div 1000) * q_micro
               + ((e_milli % 1000) * q_micro) \div 1000
    IN IF a < n THEN -mag ELSE mag

\* z = (runs - expected_runs) / sqrt(variance), in milli; variance in micro, > 0
runs_z(runs, n_ones, n_zeros, n, variance) ==
    SDiv((runs * 1000 - expected_runs(n_ones, n_zeros, n)) * 1000, ISqrt(variance))

\* test_runs without its two degenerate-case returns
test_runs_Unguarded(d, pos, sens) ==
    LET bits == get_bits(d)
        n == Len(bits)
        runs == count_runs(bits)
        n_ones == SumBits(bits)
        n_zeros == n - n_ones
    IN IF n < 2 THEN Returned(<<>>)
       ELSE LET variance == runs_variance(n_ones, n_zeros, n)
            IN IF variance < 0 THEN Raised("ValueError")
               ELSE IF variance = 0 THEN Raised("ZeroDivisionError")
               ELSE LET z_score == runs_z(runs, n_ones, n_zeros, n, variance)
                        p_value == two_tailed_p(z_score)
                    IN Flag(pos, z_score, p_value, sens, "runs")

test_runs(d, pos, sens) ==
    LET bits == get_bits(d)
        n == Len(bits)
        runs == count_runs(bits)
        n_ones == SumBits(bits)
        n_zeros == n - n_ones
    IN IF n < 2 THEN Returned(<<>>)
       ELSE IF n_ones = 0 \/ n_zeros = 0 THEN Returned(<<>>)
       ELSE LET variance == runs_variance(n_ones, n_zeros, n)
            IN IF variance <= 0 THEN Returned(<<>>)
               ELSE LET z_score == runs_z(runs, n_ones, n_zeros, n, variance)
                        p_value == two_tailed_p(z_score)
                    IN Flag(pos, z_score, p_value, sens, "runs")

\* np.bincount(byte_values, minlength=256)[v]
observed_freq(byte_values, v) ==
    Cardinality({i \in DOMAIN byte_values : byte_values[i] = v})

\* sum over the bins lo..hi of (256 * observed - n)^2; a term of chi2 is this / (256 n)
RECURSIVE SumSqDev(_, _, _)
SumSqDev(byte_values, lo, hi) ==
    IF lo = hi
    THEN LET dev == NumBins * observed_freq(byte_values, lo) - Len(byte_values)
         IN dev * dev
    ELSE LET mid == (lo + hi) \div 2
         IN SumSqDev(byte_values, lo, mid) + SumSqDev(byte_values, mid + 1, hi)

\* chi2_stat = sum((observed - expected)^2 / expected), expected = n / 256, in centi
chi2_stat(byte_values) ==
    LET s == SumSqDev(byte_values, 0, NumBins - 1)
        den == NumBins * Len(byte_values)
    IN (s \div den) * 100 + ((s % den) * 100) \div den

\* z = (chi2_stat - dof) / sqrt(2 * dof), in milli
chi2_z(chi2_centi) ==
    LET diff == chi2_centi - dof * 100
        z == MulDiv(Abs(diff), 1000, ISqrt(2 * dof * 10000))
    IN IF diff < 0 THEN -z ELSE z

\* the sample-size check off by one
test_chi_square_OffByOne(d, pos, sens) ==
    LET byte_values == d
    IN IF Len(byte_values) < ChiSquareMinBytes - 1 THEN Returned(<<>>)
       ELSE LET stat == chi2_stat(byte_values)
                p_value == chi2_upper_p(stat)
                z_score == chi2_z(stat)
            IN Flag(pos, z_score, p_value, sens, "chi_square")

test_chi_square(d, pos, sens) ==
    LET byte_values == d
    IN IF Len(byte_values) < ChiSquareMinBytes THEN Returned(<<>>)
       ELSE LET stat == chi2_stat(byte_values)
                p_value == chi2_upper_p(stat)
                z_score == chi2_z(stat)
            IN Flag(pos, z_score, p_value, sens, "chi_square")

\* the runs test called before the frequency test
RunTests_RunsFirst(d, N, pos, sens) ==
    IF ~is_full(d, N) THEN [anoms |-> <<>>, raised |-> "", evaluated |-> <<>>]
    ELSE LET f == test_frequency(d, pos, sens)
             r == test_runs(d, pos, sens)
             c == test_chi_square(d, pos, sens)
         IN IF r.raised # ""
            THEN [anoms |-> <<>>, raised |-> r.raised,
                  evaluated |-> <<"runs">>]
            ELSE IF f.raised # ""
            THEN [anoms |-> <<>>, raised |-> f.raised,
                  evaluated |-> <<"runs", "frequency">>]
            ELSE [anoms |-> r.anoms \o f.anoms \o c.anoms, raised |-> c.raised,
                  evaluated |-> <<"runs", "frequency", "chi_square">>]

\* the body of add_byte after the window push and the position increment:
\* the three tests in call order; an exception ends the call
RunTests(d, N, pos, sens) ==
    IF ~is_full(d, N) THEN [anoms |-> <<>>, raised |-> "", evaluated |-> <<>>]
    ELSE LET f == test_frequency(d, pos, sens)
             r == test_runs(d, pos, sens)
             c == test_chi_square(d, pos, sens)
         IN IF f.raised # ""
            THEN [anoms |-> <<>>, raised |-> f.raised,
                  evaluated |-> <<"frequency">>]
            ELSE IF r.raised # ""
            THEN [anoms |-> <<>>, raised |-> r.raised,
                  evaluated |-> <<"frequency", "runs">>]
            ELSE [anoms |-> f.anoms \o r.anoms \o c.anoms, raised |-> c.raised,
                  evaluated |-> <<"frequency", "runs", "chi_square">>]

\* the tests run with the position read before its increment
add_byte_StalePosition(byte_val) ==
    LET d == window_add_byte(data, window_size, byte_val)
        pos == position + 1
        out == RunTests(d, window_size, position, sensitivity)
    IN /\ data' = d
       /\ position' = pos
       /\ result' = out.anoms
       /\ raised' = out.raised
       /\ evaluated' = out.evaluated
       /\ added' = Append(added, byte_val)
       /\ summary' = NoSummary
       /\ UNCHANGED <<window_size, sensitivity, anomalies, stream, classified,
                      appvars>>

\* every returned anomaly is also appended to the stored list
add_byte_Accumulate(byte_val) ==
    LET d == window_add_byte(data, window_size, byte_val)
        pos == position + 1
        out == RunTests(d, window_size, pos, sensitivity)
    IN /\ data' = d
       /\ position' = pos
       /\ result' = out.anoms
       /\ raised' = out.raised
       /\ evaluated' = out.evaluated
       /\ added' = Append(added, byte_val)
       /\ anomalies' = anomalies \o out.anoms
       /\ summary' = NoSummary
       /\ UNCHANGED <<window_size, sensitivity, stream, classified, appvars>>

\* RandomnessAnalyzer.add_byte(byte_val)
add_byte(byte_val) ==
    LET d == window_add_byte(data, window_size, byte_val)
        pos == position + 1
        out == RunTests(d, window_size, pos, sensitivity)
    IN /\ data' = d
       /\ position' = pos
       /\ result' = out.anoms
       /\ raised' = out.raised
       /\ evaluated' = out.evaluated
       /\ added' = Append(added, byte_val)
       /\ summary' = NoSummary
       /\ UNCHANGED <<window_size, sensitivity, anomalies, stream, classified,
                      appvars>>

\* sum of the bytes d[i..j] and of their squares
RECURSIVE SumBytes(_, _, _)
SumBytes(d, i, j) ==
    IF i > j THEN 0
    ELSE IF i = j THEN d[i]
    ELSE LET mid == (i + j) \div 2
         IN SumBytes(d, i, mid) + SumBytes(d, mid + 1, j)

RECURSIVE SumSquares(_, _, _)
SumSquares(d, i, j) ==
    IF i > j THEN 0
    ELSE IF i = j THEN d[i] * d[i]
    ELSE LET mid == (i + j) \div 2
         IN SumSquares(d, i, mid) + SumSquares(d, mid + 1, j)

\* the summary counting one bit per window byte
get_summary_stats_BytesAsBits ==
    IF ~is_full(data, window_size) THEN <<>>
    ELSE LET bits == get_bits(data)
             n == Len(data)
             sum == SumBytes(data, 1, n)
             var_centi == MulDiv(n * SumSquares(data, 1, n) - sum * sum,
                                 100, n * n)
         IN [total_bits |-> Len(data),
             ones_count |-> SumBits(bits),
             zeros_count |-> Len(bits) - SumBits(bits),
             ones_ratio |-> (SumBits(bits) * 1000000) \div Len(bits),
             byte_mean |-> (sum * 1000) \div n,
             byte_std |-> ISqrt(var_centi),
             total_anomalies |-> Len(anomalies),
             current_position |-> position]

\* RandomnessAnalyzer.get_summary_stats(): <<>> stands for the empty dict;
\* ones_ratio in ppm, byte_mean in milli, byte_std (population) in deci
get_summary_stats ==
    IF ~is_full(data, window_size) THEN <<>>
    ELSE LET bits == get_bits(data)
             n == Len(data)
             sum == SumBytes(data, 1, n)
             var_centi == MulDiv(n * SumSquares(data, 1, n) - sum * sum,
                                 100, n * n)
         IN [total_bits |-> Len(bits),
             ones_count |-> SumBits(bits),
             zeros_count |-> Len(bits) - SumBits(bits),
             ones_ratio |-> (SumBits(bits) * 1000000) \div Len(bits),
             byte_mean |-> (sum * 1000) \div n,
             byte_std |-> ISqrt(var_centi),
             total_anomalies |-> Len(anomalies),
             current_position |-> position]

(***************************************************************************)
(* The analyzer under input.  A small window takes any byte of ByteInputs  *)
(* on every call; a window large enough for every test to run is fed a     *)
(* periodic byte stream chosen at construction.                            *)
(***************************************************************************)
\* bytes first, first+1, ..., first+len-1 (mod 256)
Ramp(first, len) == [i \in 1..len |-> (first + i - 1) % 256]

Streams ==
    {<<255>>, <<0>>, <<0, 255>>, <<85>>, <<200, 55>>,
     Ramp(0, 256), Ramp(0, 40), Ramp(100, 45)}

StreamWindows == {ChiSquareMinBytes - 1, ChiSquareMinBytes, TestWindowSize}

Sensitivities == {DefaultSensitivity, TestSensitivity}

(***************************************************************************)
(* Text.  A text is a sequence of characters; a string that holds no       *)
(* separator, quote or digit to be read is kept as one character, so the   *)
(* empty string is the empty text.  A float is a fixed-point number with a *)
(* given number of decimal places; its text is the shortest one with a     *)
(* digit after the point, exponents are not modelled.                      *)
(***************************************************************************)
Digits == <<"0", "1", "2", "3", "4", "5", "6", "7", "8", "9">>

Pow10(k) == IF k = 0 THEN 1 ELSE IF k = 1 THEN 10 ELSE IF k = 2 THEN 100
            ELSE IF k = 3 THEN 1000 ELSE IF k = 4 THEN 10000
            ELSE IF k = 5 THEN 100000 ELSE 1000000

RECURSIVE str_nat(_)
str_nat(n) ==
    IF n < 10 THEN <<Digits[n + 1]>>
    ELSE Append(str_nat(n \div 10), Digits[(n % 10) + 1])

\* str(n) of an int
str_int(n) == IF n < 0 THEN <<"-">> \o str_nat(-n) ELSE str_nat(n)

RECURSIVE StripZeros(_)
StripZeros(t) ==
    IF Len(t) > 1 /\ t[Len(t)] = "0" THEN StripZeros(SubSeq(t, 1, Len(t) - 1))
    ELSE t

\* repr(x) of a float
str_float(x, places) ==
    LET a == Abs(x)
        frac == [i \in 1..places |->
                    Digits[((a \div Pow10(places - i)) % 10) + 1]]
    IN (IF x < 0 THEN <<"-">> ELSE <<>>)
       \o str_nat(a \div Pow10(places)) \o <<".">> \o StripZeros(frac)

\* str(s) of a str
str_str(s) == IF s = "" THEN <<>> ELSE <<s>>

\* the str a text is
text_str(t) == IF t = <<>> THEN "" ELSE t[1]

RECURSIVE nat_of(_)
nat_of(t) ==
    IF t = <<>> THEN 0
    ELSE 10 * nat_of(SubSeq(t, 1, Len(t) - 1))
         + ((CHOOSE d \in 1..10 : Digits[d] = t[Len(t)]) - 1)

\* int(t)
int_of(t) == IF t[1] = "-" THEN -nat_of(Tail(t)) ELSE nat_of(t)

\* float(t)
float_of(t, places) ==
    LET body == IF t[1] = "-" THEN Tail(t) ELSE t
        dot == IF \E i \in DOMAIN body : body[i] = "."
               THEN CHOOSE i \in DOMAIN body : body[i] = "."
               ELSE Len(body) + 1
        frac == SubSeq(body, dot + 1, Len(body))
        a == nat_of(SubSeq(body, 1, dot - 1)) * Pow10(places)
             + nat_of(frac) * Pow10(places - Len(frac))
    IN IF t[1] = "-" THEN -a ELSE a

\* sep.join(texts)
RECURSIVE Join(_, _)
Join(texts, sep) ==
    IF Len(texts) = 0 THEN <<>>
    ELSE IF Len(texts) = 1 THEN texts[1]
    ELSE texts[1] \o <<sep>> \o Join(Tail(texts), sep)

\* text.split(sep)
RECURSIVE Split(_, _)
Split(text, sep) ==
    IF \A i \in DOMAIN text : text[i] # sep THEN <<text>>
    ELSE LET i == CHOOSE k \in DOMAIN text :
                      text[k] = sep /\ \A j \in 1..(k - 1) : text[j] # sep
         IN <<SubSeq(text, 1, i - 1)>>
            \o Split(SubSeq(text, i + 1, Len(text)), sep)

(***************************************************************************)
(* rng_viz/data/storage.py.  An optional field is <<>> when it is None and *)
(* <<v>> when it holds v.  timestamp, z_score and duration_seconds have 3  *)
(* decimal places, p_value and sensitivity 6.                              *)
(***************************************************************************)
\* the fields of CaptureMetadata, in their order; from_dict needs exactly
\* these keys
MetadataOrder ==
    <<"timestamp", "device_info", "window_size", "sensitivity", "total_bytes",
      "total_anomalies", "duration_seconds">>

MetadataFields == {MetadataOrder[i] : i \in DOMAIN MetadataOrder}

\* the window size is where the counter is
create_capture_metadata_SizeAsTotal(device_info, size, sens) ==
    [timestamp |-> "now", device_info |-> device_info, window_size |-> size,
     sensitivity |-> sens, total_bytes |-> size, total_anomalies |-> 0,
     duration_seconds |-> 0]

\* create_capture_metadata: datetime.now().isoformat() is "now"
create_capture_metadata(device_info, size, sens) ==
    [timestamp |-> "now", device_info |-> device_info, window_size |-> size,
     sensitivity |-> sens, total_bytes |-> 0, total_anomalies |-> 0,
     duration_seconds |-> 0]

\* json.dumps(asdict(metadata)): the value of each key as JSON text; the
\* device_info object is kept as one string
json_dumps(metadata) ==
    [i \in DOMAIN MetadataOrder |->
        LET key == MetadataOrder[i]
        IN <<key,
             IF key \in {"timestamp", "device_info"}
             THEN <<"\"", metadata[key], "\"">>
             ELSE IF key = "sensitivity" THEN str_float(metadata[key], 6)
             ELSE IF key = "duration_seconds" THEN str_float(metadata[key], 3)
             ELSE str_int(metadata[key])>>]

\* json.loads of one value
json_value(key, text) ==
    IF text[1] = "\"" THEN text[2]
    ELSE IF \E i \in DOMAIN text : text[i] = "."
    THEN float_of(text, IF key = "sensitivity" THEN 6 ELSE 3)
    ELSE int_of(text)

\* the keys of a JSON object
keys(object) == {object[i][1] : i \in DOMAIN object}

\* json.loads(metadata_json), then CaptureMetadata.from_dict
json_loads(object) ==
    [key \in keys(object) |->
        json_value(key, object[CHOOSE i \in DOMAIN object : object[i][1] = key][2])]

\* the first line BitstreamWriter.__enter__ writes: "# ", then the JSON
first_line(metadata) ==
    [prefix |-> TRUE, json |-> TRUE, object |-> json_dumps(metadata)]

\* the status of a connected device
DeviceStatus == "connected"

\* a first line as BitstreamWriter.__enter__ writes it
GoodHeader ==
    first_line(create_capture_metadata(DeviceStatus, AppWindow, DefaultSensitivity))

\* no capture file has been made
NoHeader == [prefix |-> FALSE, json |-> FALSE, object |-> <<>>]

\* GameState(): no turn, empty history, not finished; exists is FALSE while
\* self.game_state is None; current_turn holds at most one turn
NoGameState ==
    [exists |-> FALSE, current_turn |-> <<>>, turn_history |-> <<>>,
     is_finished |-> FALSE]

\* RNGVisualizerApp.__init__: nothing is set up, nothing runs
InitApp ==
    /\ mounted = FALSE
    /\ setup = "none"
    /\ is_paused = FALSE
    /\ shutting_down = FALSE
    /\ exited = FALSE
    /\ device = FALSE
    /\ is_connected = FALSE
    /\ serial_open = FALSE
    /\ serial_closes = 0
    /\ dev_offset = 0
    /\ gen = "none"
    /\ analyzer = FALSE
    /\ writer = FALSE
    /\ csv_file = "none"
    /\ file_closes = 0
    /\ rows = <<>>
    /\ reader = FALSE
    /\ read_idx = 0
    /\ capture_task = "none"
    /\ viz_update_counter = 0
    /\ points = <<>>
    /\ stats_updates = 0
    /\ processed = <<>>
    /\ notified = {}
    /\ game_timer_task = "none"
    /\ game_state = NoGameState
    /\ req = <<>>

\* resolve_capture_path has not been called; the file system is not looked at
NoCli ==
    /\ fs = {}
    /\ resolved = <<>>

\* the analyzer used on its own: no application around it
NoApp ==
    /\ mode = "none"
    /\ connect_outcome = "ok"
    /\ save_path = FALSE
    /\ open_outcome = "ok"
    /\ header = GoodHeader
    /\ file = <<>>
    /\ lines = <<>>
    /\ NoCli
    /\ InitApp

\* RandomnessAnalyzer.__init__
InitAnalyzer ==
    /\ data = <<>>
    /\ position = 0
    /\ anomalies = <<>>
    /\ result = <<>>
    /\ evaluated = <<>>
    /\ raised = ""
    /\ added = <<>>
    /\ summary = NoSummary

Init ==
    /\ \/ window_size \in 1..MaxWindow /\ stream = <<>>
       \/ window_size \in StreamWindows /\ stream \in Streams
    /\ sensitivity \in Sensitivities
    /\ classified = <<>>
    /\ InitAnalyzer
    /\ NoApp

AddByte ==
    /\ stream = <<>>
    /\ position < MaxBytes
    /\ \E byte_val \in ByteInputs : add_byte(byte_val)

FeedStream ==
    /\ stream # <<>>
    /\ position < window_size + ExtraBytes
    /\ add_byte(stream[(position % Len(stream)) + 1])

\* a caller reads the summary; the analyzer is left as it is
GetSummaryStats ==
    /\ summary' = [called |-> TRUE, value |-> get_summary_stats]
    /\ UNCHANGED <<window_size, sensitivity, data, position, anomalies, result,
                   evaluated, raised, added, stream, classified, appvars>>

Next == AddByte \/ FeedStream \/ GetSummaryStats

Spec == Init /\ [][Next]_vars

(***************************************************************************)
(* Significance classification as a function of the p-value alone.         *)
(***************************************************************************)
\* p-values (ppm) around every threshold of significance_levels
PValues ==
    {0, 1, 500, 999, 1000, 1001, 5000, 9999, 10000, 10001, 30000,
     49999, 50000, 50001, 500000, 999999, 1000000}

InitClassify ==
    /\ window_size = TestWindowSize
    /\ sensitivity = TestSensitivity
    /\ stream = <<>>
    /\ classified = <<>>
    /\ InitAnalyzer
    /\ NoApp

\* one call of _get_significance_level; the last two calls are kept
Classify ==
    \E p_value \in PValues :
        /\ classified' =
               (IF classified = <<>> THEN <<>> ELSE <<classified[Len(classified)]>>)
               \o <<[p_value |-> p_value,
                     level |-> get_significance_level(p_value)]>>
        /\ UNCHANGED <<window_size, sensitivity, data, position, anomalies,
                       result, evaluated, raised, added, stream, summary,
                       appvars>>

NextClassify == Classify

SpecClassify == InitClassify /\ [][NextClassify]_vars

(***************************************************************************)
(* The application: what a processed byte sends to the visualizer.         *)
(* Display values are in thousandths.                                      *)
(***************************************************************************)
\* (byte_val - 127.5) / 127.5
byte_viz(byte_val) == SDiv((2 * byte_val - 255) * 1000, 255)

\* z_score / 5.0 without the clamp
z_viz_Unclamped(z_score) == SDiv(z_score, 5)

\* max(-1.0, min(1.0, z_score / 5.0))
z_viz(z_score) ==
    LET v == SDiv(z_score, 5)
    IN IF v > 1000 THEN 1000 ELSE IF v < -1000 THEN -1000 ELSE v

\* the last of the anomalies of largest |z_score|
strongest_LastMax(anoms) ==
    anoms[CHOOSE i \in DOMAIN anoms :
            /\ \A j \in DOMAIN anoms : Abs(anoms[j].z_score) <= Abs(anoms[i].z_score)
            /\ \A j \in DOMAIN anoms :
                   j > i => Abs(anoms[j].z_score) < Abs(anoms[i].z_score)]

\* max(anomalies, key=lambda a: abs(a.z_score)): Python's max returns the
\* first of the elements of largest key
strongest(anoms) ==
    anoms[CHOOSE i \in DOMAIN anoms :
            /\ \A j \in DOMAIN anoms : Abs(anoms[j].z_score) <= Abs(anoms[i].z_score)
            /\ \A j \in DOMAIN anoms :
                   j < i => Abs(anoms[j].z_score) < Abs(anoms[i].z_score)]

\* anomaly_marker is None
NoMarker == "None"

\* the point a capture loop computes for one byte and its anomalies
viz_point(byte_val, anoms) ==
    IF anoms = <<>>
    THEN [value |-> byte_viz(byte_val), marker |-> NoMarker]
    ELSE [value |-> z_viz(strongest(anoms).z_score),
          marker |-> strongest(anoms).significance_level]

\* the point a playback loop computes for one record of the file
playback_point(record) ==
    IF record.anomaly = <<>>
    THEN [value |-> byte_viz(record.byte_value), marker |-> NoMarker]
    ELSE [value |-> z_viz(record.anomaly[1].z_score),
          marker |-> record.anomaly[1].significance]

\* the record built from the first anomaly of the list; the four optional
\* fields are set together: anomaly is <<>> when they are None.  The
\* timestamp is left out.
record_of(pos, byte_val, anoms) ==
    [position |-> pos, byte_value |-> byte_val,
     anomaly |-> IF anoms = <<>> THEN <<>>
                 ELSE <<[anomaly_type |-> anoms[1].test_type,
                         z_score |-> anoms[1].z_score,
                         p_value |-> anoms[1].p_value,
                         significance |-> anoms[1].significance_level]>>]

(***************************************************************************)
(* The game.  A turn's clock is not modelled: expired says that            *)
(* time.time() - start_time has reached the turn's duration, and           *)
(* start_time is the rank of the turn among the turns created, which tells *)
(* one GameTurn object from another.                                       *)
(***************************************************************************)
Instructions == {"Generate more 1's", "Generate more 0's"}

\* BucketScores()
ZeroScores ==
    [red_up |-> 0, orange_up |-> 0, yellow_up |-> 0,
     red_down |-> 0, orange_down |-> 0, yellow_down |-> 0]

\* GameTurn(instruction=..., duration=...)
GameTurn(instruction, start_time) ==
    [instruction |-> instruction, start_time |-> start_time,
     expired |-> FALSE, scores |-> ZeroScores]

\* the new turn starts with the scores of the turn it replaces
start_new_turn_CarriesScores(gs, instruction) ==
    [gs EXCEPT
        !.turn_history = IF gs.current_turn # <<>>
                         THEN Append(@, gs.current_turn[1]) ELSE @,
        !.current_turn =
            <<[GameTurn(instruction,
                        Len(gs.turn_history) + Len(gs.current_turn) + 1)
                  EXCEPT !.scores = IF gs.current_turn # <<>>
                                    THEN gs.current_turn[1].scores ELSE @]>>]

\* GameState.start_new_turn with the instruction random.choice returns
start_new_turn(gs, instruction) ==
    [gs EXCEPT
        !.turn_history = IF gs.current_turn # <<>>
                         THEN Append(@, gs.current_turn[1]) ELSE @,
        !.current_turn =
            <<GameTurn(instruction,
                       Len(gs.turn_history) + Len(gs.current_turn) + 1)>>]

\* a z-score of zero counts as up
bucket_ZeroIsUp(anomaly) ==
    LET dir == IF anomaly.z_score >= 0 THEN "up" ELSE "down"
    IN IF anomaly.significance_level = "***" THEN "red_" \o dir
       ELSE IF anomaly.significance_level = "**" THEN "orange_" \o dir
       ELSE IF anomaly.significance_level = "*" THEN "yellow_" \o dir
       ELSE ""

\* the bucket of an anomaly, "" if its level is none of the three
bucket(anomaly) ==
    LET dir == IF anomaly.z_score > 0 THEN "up" ELSE "down"
    IN IF anomaly.significance_level = "***" THEN "red_" \o dir
       ELSE IF anomaly.significance_level = "**" THEN "orange_" \o dir
       ELSE IF anomaly.significance_level = "*" THEN "yellow_" \o dir
       ELSE ""

\* the finished flag is not looked at
add_anomaly_IgnoresFinished(gs, anomaly) ==
    IF gs.current_turn = <<>> THEN gs
    ELSE IF bucket(anomaly) = "" THEN gs
    ELSE [gs EXCEPT !.current_turn[1].scores[bucket(anomaly)] = @ + 1]

\* GameState.add_anomaly
add_anomaly(gs, anomaly) ==
    IF gs.current_turn = <<>> \/ gs.is_finished THEN gs
    ELSE IF bucket(anomaly) = "" THEN gs
    ELSE [gs EXCEPT !.current_turn[1].scores[bucket(anomaly)] = @ + 1]

\* only the first anomaly of the list is added
add_anomalies_FirstOnly(gs, anoms, i) ==
    IF i > Len(anoms) \/ ~gs.exists THEN gs
    ELSE add_anomaly(gs, anoms[i])

\* for anomaly in anomalies: if self.game_state: add_anomaly(anomaly)
RECURSIVE add_anomalies(_, _, _)
add_anomalies(gs, anoms, i) ==
    IF i > Len(anoms) \/ ~gs.exists THEN gs
    ELSE add_anomalies(add_anomaly(gs, anoms[i]), anoms, i + 1)

\* the current turn is archived and stays current
finish_game_KeepsCurrent(gs) ==
    [gs EXCEPT
        !.turn_history = IF gs.current_turn # <<>>
                         THEN Append(@, gs.current_turn[1]) ELSE @,
        !.is_finished = TRUE]

\* GameState.finish_game
finish_game(gs) ==
    [gs EXCEPT
        !.turn_history = IF gs.current_turn # <<>>
                         THEN Append(@, gs.current_turn[1]) ELSE @,
        !.current_turn = <<>>,
        !.is_finished = TRUE]

\* the per-counter sum of the scores of turns[1..n]
RECURSIVE sum_scores(_, _)
sum_scores(turns, n) ==
    IF n = 0 THEN ZeroScores
    ELSE [b \in DOMAIN ZeroScores |-> sum_scores(turns, n - 1)[b] + turns[n].scores[b]]

\* the current turn is summed too
get_overall_stats_WithCurrent(gs) ==
    sum_scores(gs.turn_history \o gs.current_turn,
               Len(gs.turn_history) + Len(gs.current_turn))

\* GameState.get_overall_stats
get_overall_stats(gs) == sum_scores(gs.turn_history, Len(gs.turn_history))

(***************************************************************************)
(* The choice of the forwarded anomaly as a function of the list add_byte  *)
(* returned: the list is drawn from every combination of at most one       *)
(* anomaly per test.                                                       *)
(***************************************************************************)
ZInputs == {-6000, -3000, 3000, 6000}

MarkerInputs == {"**", "***"}

OneOf(type) ==
    {<<>>} \cup {<<AnomalyResult(1, z, 0, sig, type)>> :
                    z \in ZInputs, sig \in MarkerInputs}

AnomalyLists ==
    {f \o r \o c : f \in OneOf("frequency"), r \in OneOf("runs"),
                    c \in OneOf("chi_square")}

InitForward ==
    /\ window_size = 1
    /\ sensitivity = DefaultSensitivity
    /\ stream = <<>>
    /\ classified = <<>>
    /\ data \in {<<b>> : b \in {0, 255}}
    /\ added = data
    /\ position = 1
    /\ anomalies = <<>>
    /\ result \in AnomalyLists
    /\ evaluated = <<"frequency", "runs", "chi_square">>
    /\ raised = ""
    /\ summary = NoSummary
    /\ NoApp

\* the loop body from the add_byte call to add_data_point, taken at a 10th unit
Forward ==
    /\ points = <<>>
    /\ points' = <<viz_point(added[1], result)>>
    /\ UNCHANGED <<window_size, sensitivity, data, position, anomalies, result,
                   evaluated, raised, added, stream, classified, summary>>
    /\ UNCHANGED <<envvars, mounted, setup, is_paused, shutting_down, exited,
             device, is_connected, serial_open, serial_closes, dev_offset, gen,
             analyzer, writer, csv_file, file_closes, rows, reader, read_idx,
             capture_task, viz_update_counter, stats_updates, processed,
             notified, game_timer_task, game_state, req>>

NextForward == Forward

SpecForward == InitForward /\ [][NextForward]_vars

(***************************************************************************)
(* The loop bodies.  A loop runs without suspension from one await to the  *)
(* next, so a whole chunk goes through the body in one step; st is the     *)
(* part of the state the body works on.                                    *)
(***************************************************************************)
LoopState ==
    [data |-> data, position |-> position, result |-> result,
     evaluated |-> evaluated, raised |-> raised, added |-> added,
     counter |-> viz_update_counter, points |-> points,
     stats_updates |-> stats_updates, rows |-> rows, processed |-> processed,
     game_state |-> game_state, error |-> FALSE]

\* the counter is never reset: every unit from the 10th on is forwarded
throttle_NoReset(st, point) ==
    LET c == st.counter + 1
    IN IF c >= viz_update_frequency
       THEN [st EXCEPT !.points = Append(@, point), !.stats_updates = @ + 1,
                       !.counter = c]
       ELSE [st EXCEPT !.counter = c]

\* viz_update_counter += 1; on reaching viz_update_frequency: add_data_point,
\* update_stats, counter reset
throttle(st, point) ==
    LET c == st.counter + 1
    IN IF c >= viz_update_frequency
       THEN [st EXCEPT !.points = Append(@, point), !.stats_updates = @ + 1,
                       !.counter = 0]
       ELSE [st EXCEPT !.counter = c]

\* the loop's state after an add_byte call that left the window d and
\* came back with out
fed_state(st, byte_val, d, out) ==
    [st EXCEPT !.data = d, !.position = @ + 1, !.result = out.anoms,
               !.evaluated = out.evaluated, !.raised = out.raised,
               !.added = Append(@, byte_val), !.error = out.raised # ""]

\* the tests of add_byte on the window d
tested(st, byte_val, d) ==
    fed_state(st, byte_val, d, RunTests(d, window_size, st.position + 1, sensitivity))

\* self.analyzer.add_byte(byte_val) on the loop's state
feed(st, byte_val) ==
    tested(st, byte_val, window_add_byte(st.data, window_size, byte_val))

\* body of _capture_loop / _game_capture_loop for one byte; unit is the
\* byte's place in the device's output, write_ok whether the file accepts
\* the row
\* for anomaly in anomalies: game_state.add_anomaly(anomaly), in a game
scored(fed) ==
    IF mode \in {"game", "game_file"}
    THEN [fed EXCEPT !.game_state = add_anomalies(@, fed.result, 1)]
    ELSE fed

\* the row carries the number of bytes analysed before this one
written_ZeroBased(shown, byte_val, write_ok) ==
    IF ~writer THEN shown
    ELSE IF ~write_ok \/ csv_file # "open" THEN [shown EXCEPT !.error = TRUE]
    ELSE [shown EXCEPT
             !.rows = Append(@, record_of(shown.position - 1, byte_val,
                                          shown.result))]

\* the row carries the anomaly of largest |z_score|
written_Strongest(shown, byte_val, write_ok) ==
    IF ~writer THEN shown
    ELSE IF ~write_ok \/ csv_file # "open" THEN [shown EXCEPT !.error = TRUE]
    ELSE [shown EXCEPT
             !.rows = Append(@, record_of(shown.position, byte_val,
                                          IF shown.result = <<>> THEN <<>>
                                          ELSE <<strongest(shown.result)>>))]

\* self.writer.write_record(record), which raises on a file that is not
\* open or does not accept the row
written(shown, byte_val, write_ok) ==
    IF ~writer THEN shown
    ELSE IF ~write_ok \/ csv_file # "open" THEN [shown EXCEPT !.error = TRUE]
    ELSE [shown EXCEPT
             !.rows = Append(@, record_of(shown.position, byte_val, shown.result))]

\* the body after add_byte returned
capture_rest(fed, byte_val, unit, write_ok) ==
    IF fed.error THEN fed
    ELSE written([throttle(scored(fed), viz_point(byte_val, fed.result))
                     EXCEPT !.processed = Append(@, unit)],
                 byte_val, write_ok)

capture_body(st, byte_val, unit, write_ok) ==
    capture_rest(feed(st, byte_val), byte_val, unit, write_ok)

\* for byte_val in chunk: ...; the write of the fail_at-th byte raises
\* (fail_at = 0: none does); an exception leaves the for loop
RECURSIVE process_chunk(_, _, _, _, _)
process_chunk(st, chunk, first_unit, i, fail_at) ==
    IF i > Len(chunk) \/ st.error THEN st
    ELSE process_chunk(capture_body(st, chunk[i], first_unit + i - 1, i # fail_at),
                       chunk, first_unit, i + 1, fail_at)

\* body of _playback_loop / _game_playback_loop for one record; only the
\* game replay feeds an analyzer
playback_rest(fed, record, unit) ==
    IF fed.error THEN fed
    ELSE [throttle(scored(fed), playback_point(record))
             EXCEPT !.processed = Append(@, unit)]

playback_body(st, record, unit) ==
    playback_rest(IF mode = "game_file" THEN feed(st, record.byte_value) ELSE st,
                  record, unit)

\* the loop's state written back
Commit(st) ==
    /\ data' = st.data
    /\ position' = st.position
    /\ result' = st.result
    /\ evaluated' = st.evaluated
    /\ raised' = st.raised
    /\ added' = st.added
    /\ viz_update_counter' = st.counter
    /\ points' = st.points
    /\ stats_updates' = st.stats_updates
    /\ rows' = st.rows
    /\ processed' = st.processed
    /\ game_state' = st.game_state

\* the variables Commit assigns
loopvars == <<data, position, result, evaluated, raised, added,
              viz_update_counter, points, stats_updates, rows, processed,
              game_state>>

(***************************************************************************)
(* An application run.  The event loop runs one coroutine at a time, each  *)
(* from one await to the next; every action below is one such stretch.     *)
(* self.exit() ends the run: nothing is scheduled after it.                *)
(***************************************************************************)
Modes == {"live", "file", "game", "game_file"}

LiveModes == {"live", "game"}

ReplayModes == {"file", "game_file"}

\* periods of the byte streams the device produces
AppStreams == {<<255, 255, 15, 0, 85>>}

\* lengths of the chunks serial_conn.read(chunk_size) returns
ChunkLens == {7, chunk_size}

\* first lines of replayed files: as written, without the "# " prefix, with
\* invalid JSON, with a metadata field missing
Headers ==
    {GoodHeader, [GoodHeader EXCEPT !.prefix = FALSE],
     [GoodHeader EXCEPT !.json = FALSE],
     [GoodHeader EXCEPT !.object =
         SelectSeq(GoodHeader.object, LAMBDA e : e[1] # "total_bytes")]}

\* the k-th byte of a periodic stream
StreamByte(strm, k) == strm[((k - 1) % Len(strm)) + 1]

\* the window after the i-th of bytes went into a window of capacity N
WindowAt(bytes, i, N) == SubSeq(bytes, IF i > N THEN i - N + 1 ELSE 1, i)

\* the rows a capture of the first n bytes of a stream leaves in its file
recorded(strm, n) ==
    LET bytes == [i \in 1..n |-> StreamByte(strm, i)]
    IN [i \in 1..n |->
           record_of(i, bytes[i],
                     RunTests(WindowAt(bytes, i, AppWindow), AppWindow, i,
                              DefaultSensitivity).anoms)]

Files == {recorded(strm, MaxRecords) : strm \in AppStreams}

\* BitstreamReader.load_metadata: the exception it raises, "" if none
load_metadata(h) ==
    IF ~h.prefix THEN "ValueError"
    ELSE IF ~h.json THEN "JSONDecodeError"
    ELSE IF keys(h.object) # MetadataFields THEN "TypeError"
    ELSE ""

anvars == <<window_size, sensitivity, anomalies, stream, classified, summary>>

devvars == <<device, is_connected, serial_open, serial_closes, dev_offset, gen>>

wrvars == <<writer, csv_file, file_closes>>

rdvars == <<reader, read_idx>>

InitRun ==
    /\ window_size = AppWindow
    /\ sensitivity = DefaultSensitivity
    /\ classified = <<>>
    /\ InitAnalyzer
    /\ InitApp
    /\ lines = <<>>
    /\ NoCli
    /\ mode \in Modes
    /\ IF mode \in LiveModes
       THEN /\ stream \in AppStreams
            /\ file = <<>>
            /\ header = NoHeader
            /\ connect_outcome \in {"ok", "false", "raise"}
            /\ save_path \in BOOLEAN
            /\ open_outcome \in (IF save_path THEN {"ok", "raise"} ELSE {"ok"})
       ELSE /\ stream = <<>>
            /\ file \in Files
            /\ header \in Headers
            /\ connect_outcome = "ok"
            /\ save_path = FALSE
            /\ open_outcome = "ok"

\* run_live_mode / run_file_mode / run_game_mode / run_game_file_mode up to
\* self.run(): the game modes create the GameState, the setup is scheduled
RunMode ==
    /\ setup = "none"
    /\ setup' = "scheduled"
    /\ game_state' = IF mode \in {"game", "game_file"}
                     THEN [NoGameState EXCEPT !.exists = TRUE] ELSE game_state
    /\ UNCHANGED <<anvars, envvars, devvars, wrvars, rdvars, analyzer, notified,
                   mounted, is_paused, shutting_down, exited,
                   capture_task, game_timer_task, req,
                   data, position, result, evaluated, raised, added,
                   viz_update_counter, points, stats_updates, rows, processed>>

\* on_mount: self._loop is set
OnMount ==
    /\ setup = "scheduled"
    /\ ~mounted
    /\ ~exited
    /\ mounted' = TRUE
    /\ UNCHANGED <<anvars, envvars, devvars, wrvars, rdvars, analyzer, notified,
                   loopvars, setup, is_paused, shutting_down, exited,
                   capture_task, game_timer_task, req>>

\* the event loop is running and free to run a coroutine
Running == mounted /\ ~exited /\ capture_task # "spinning"

\* setup_live / setup_game up to the await of connect in the executor
SetupLiveStart ==
    /\ Running
    /\ setup = "scheduled"
    /\ mode \in LiveModes
    /\ device' = TRUE
    /\ setup' = "connecting"
    /\ UNCHANGED <<anvars, envvars, wrvars, rdvars, analyzer, notified, loopvars,
                   is_connected, serial_open, serial_closes, dev_offset, gen,
                   mounted, is_paused, shutting_down, exited,
                   capture_task, game_timer_task, req>>

\* TrueRNGDevice.connect, in the executor's thread: it returns True with
\* the port open, returns False after closing the port again, or raises
\* ConnectionError for want of a device
Connect ==
    /\ setup = "connecting"
    /\ setup' = "connected"
    /\ is_connected' = (connect_outcome = "ok")
    /\ serial_open' = (connect_outcome = "ok")
    /\ serial_closes' = IF connect_outcome = "false"
                        THEN serial_closes + 1 ELSE serial_closes
    /\ UNCHANGED <<anvars, envvars, wrvars, rdvars, analyzer, notified, loopvars,
                   device, dev_offset, gen,
                   mounted, is_paused, shutting_down, exited,
                   capture_task, game_timer_task, req>>

\* setup_live / setup_game after the await: the value connect returned is
\* not looked at; an exception of connect or of the file's opening is
\* reported and ends the setup
SetupLive ==
    /\ Running
    /\ setup = "connected"
    /\ mode \in LiveModes
    /\ \E instruction \in (IF mode = "game" THEN Instructions
                             ELSE {"Generate more 1's"}) :
        IF connect_outcome = "raise"
        THEN /\ setup' = "failed"
             /\ notified' = notified \cup {"setup_error"}
             /\ UNCHANGED <<analyzer, wrvars, capture_task, game_timer_task,
                            game_state>>
        ELSE IF save_path /\ open_outcome = "raise"
        THEN /\ setup' = "failed"
             /\ notified' = notified \cup {"setup_error"}
             /\ analyzer' = TRUE
             /\ writer' = TRUE
             /\ UNCHANGED <<csv_file, file_closes, capture_task, game_timer_task,
                            game_state>>
        ELSE /\ setup' = "done"
             /\ analyzer' = TRUE
             /\ writer' = save_path
             /\ csv_file' = IF save_path THEN "open" ELSE csv_file
             /\ game_state' = IF mode = "game"
                              THEN start_new_turn(game_state, instruction)
                              ELSE game_state
             /\ game_timer_task' = IF mode = "game" THEN "created"
                                   ELSE game_timer_task
             /\ capture_task' = "created"
             /\ UNCHANGED <<file_closes, notified>>
    /\ header' = IF connect_outcome # "raise" /\ save_path /\ open_outcome = "ok"
                 THEN first_line(create_capture_metadata(
                                     DeviceStatus, window_size, sensitivity))
                 ELSE header
    /\ UNCHANGED <<anvars, givenvars, devvars, rdvars,
                   data, position, result, evaluated, raised, added,
                   viz_update_counter, points, stats_updates, rows, processed,
                   mounted, is_paused, shutting_down, exited, req>>

\* setup_file / setup_game_file: an exception of load_metadata is reported
\* and ends the setup
SetupFile ==
    /\ Running
    /\ setup = "scheduled"
    /\ mode \in ReplayModes
    /\ reader' = TRUE
    /\ IF load_metadata(header) # ""
       THEN /\ setup' = "failed"
            /\ notified' = notified \cup {"setup_error"}
            /\ UNCHANGED capture_task
       ELSE /\ setup' = "done"
            /\ capture_task' = "created"
            /\ UNCHANGED notified
    /\ UNCHANGED <<anvars, envvars, devvars, wrvars, read_idx, analyzer, loopvars,
                   mounted, is_paused, shutting_down, exited,
                   game_timer_task, req>>

\* TrueRNGDevice.disconnect: the port is closed if it is open
disconnect ==
    /\ serial_closes' = IF serial_open THEN serial_closes + 1 ELSE serial_closes
    /\ serial_open' = FALSE
    /\ is_connected' = FALSE

\* BitstreamWriter.__exit__: the file is closed if it was ever opened
writer_exit ==
    /\ file_closes' = IF csv_file # "none" THEN file_closes + 1 ELSE file_closes
    /\ csv_file' = IF csv_file # "none" THEN "closed" ELSE csv_file

\* a task that waits at an await (or was never started)
Waiting(task) == task \in {"created", "sleeping", "paused"}

\* the loop leaves its function: the generator is closed with it, and its
\* finally clause disconnects
LeaveCapture ==
    /\ capture_task' = "done"
    /\ gen' = "closed"
    /\ disconnect

\* _capture_loop / _game_capture_loop from the chunk stream_bytes yields to
\* the next await: break on shutdown, drop the chunk and sleep when paused,
\* else the body for every byte (st is the loop's state after them); an
\* exception is notified and ends the loop
Took(n, st) ==
       /\ dev_offset' = dev_offset + n
       /\ IF shutting_down
          THEN LeaveCapture /\ UNCHANGED <<loopvars, notified>>
          ELSE IF is_paused
          THEN /\ capture_task' = "paused"
               /\ gen' = "started"
               /\ UNCHANGED <<loopvars, notified, is_connected, serial_open,
                              serial_closes>>
          ELSE /\ Commit(st)
               /\ IF st.error
                  THEN LeaveCapture /\ notified' = notified \cup {"capture_error"}
                  ELSE /\ capture_task' = "sleeping"
                       /\ gen' = "started"
                       /\ UNCHANGED <<notified, is_connected, serial_open,
                                      serial_closes>>
       /\ UNCHANGED <<anvars, envvars, wrvars, rdvars, analyzer, device,
                      mounted, setup, is_paused, shutting_down, exited,
                      game_timer_task, req>>

\* the chunk of n bytes the device hands out next
next_chunk(n) == [k \in 1..n |-> StreamByte(stream, dev_offset + k)]

TakeChunk(n, fail_at) ==
    Took(n, process_chunk(LoopState, next_chunk(n), dev_offset + 1, 1, fail_at))

\* the loop resumes and the device has a chunk
CaptureChunk ==
    /\ Running
    /\ mode \in LiveModes
    /\ Waiting(capture_task)
    /\ is_connected
    /\ \E n \in ChunkLens : dev_offset + n <= MaxUnits /\ TakeChunk(n, 0)

\* the loop resumes and the device has nothing: stream_bytes sleeps and
\* reads again without yielding, and the event loop stands still
CaptureNoData ==
    /\ Running
    /\ mode \in LiveModes
    /\ Waiting(capture_task)
    /\ is_connected
    /\ capture_task' = "spinning"
    /\ gen' = "started"
    /\ UNCHANGED <<anvars, envvars, wrvars, rdvars, analyzer, notified, loopvars,
                   device, is_connected, serial_open, serial_closes, dev_offset,
                   mounted, setup, is_paused, shutting_down, exited,
                   game_timer_task, req>>

\* data arrives while stream_bytes spins
DataArrives ==
    /\ capture_task = "spinning"
    /\ ~exited
    /\ \E n \in ChunkLens : dev_offset + n <= MaxUnits /\ TakeChunk(n, 0)

\* the loop resumes on a device that is not connected: the first call of
\* stream_bytes raises RuntimeError, a later one ends the generator
CaptureNotConnected ==
    /\ Running
    /\ mode \in LiveModes
    /\ Waiting(capture_task)
    /\ ~is_connected
    /\ capture_task' = "done"
    /\ gen' = "closed"
    /\ IF gen = "none"
       THEN /\ notified' = notified \cup {"capture_error"}
            /\ UNCHANGED <<is_connected, serial_open, serial_closes>>
       ELSE disconnect /\ UNCHANGED notified
    /\ UNCHANGED <<anvars, envvars, wrvars, rdvars, analyzer, loopvars,
                   device, dev_offset,
                   mounted, setup, is_paused, shutting_down, exited,
                   game_timer_task, req>>

\* _playback_loop / _game_playback_loop from one await to the next: the
\* next record is pulled from iter_records, then break on shutdown, sleep
\* and continue when paused, else the body (st is the loop's state after it)
Played(st) ==
    /\ analyzer' = (analyzer \/ mode = "game_file")
    /\ IF read_idx = Len(file)
       THEN /\ capture_task' = "done"
            /\ UNCHANGED <<read_idx, loopvars, notified>>
       ELSE /\ read_idx' = read_idx + 1
            /\ IF shutting_down
               THEN capture_task' = "done" /\ UNCHANGED <<loopvars, notified>>
               ELSE IF is_paused
               THEN capture_task' = "paused" /\ UNCHANGED <<loopvars, notified>>
               ELSE /\ Commit(st)
                    /\ capture_task' = IF st.error THEN "done" ELSE "sleeping"
                    /\ notified' = IF st.error
                                   THEN notified \cup {"capture_error"}
                                   ELSE notified
    /\ UNCHANGED <<anvars, envvars, devvars, wrvars, reader,
                   mounted, setup, is_paused, shutting_down, exited,
                   game_timer_task, req>>

PlaybackStep ==
    /\ Running
    /\ mode \in ReplayModes
    /\ Waiting(capture_task)
    /\ Played(IF read_idx < Len(file)
              THEN playback_body(LoopState, file[read_idx + 1], read_idx + 1)
              ELSE LoopState)

\* a cancelled capture / playback task resumes: CancelledError is raised at
\* its await and no except clause of the loop catches it
CaptureCancelled ==
    /\ Running
    /\ capture_task = "cancelling"
    /\ capture_task' = "cancelled"
    /\ UNCHANGED <<anvars, envvars, devvars, wrvars, rdvars, analyzer, notified,
                   loopvars, mounted, setup, is_paused, shutting_down, exited,
                   game_timer_task, req>>

\* the generator of a cancelled loop is finalized whenever its frame is
\* released: its finally clause disconnects
GenFinalize ==
    /\ capture_task = "cancelled"
    /\ gen = "started"
    /\ gen' = "closed"
    /\ disconnect
    /\ UNCHANGED <<anvars, envvars, wrvars, rdvars, analyzer, notified, loopvars,
                   device, dev_offset,
                   mounted, setup, is_paused, shutting_down, exited,
                   capture_task, game_timer_task, req>>

\* the paused flag is not looked at
TimerStep_RotatesWhenPaused ==
    /\ Running
    /\ game_timer_task \in {"created", "sleeping"}
    /\ IF shutting_down \/ ~game_state.exists \/ game_state.is_finished
       THEN game_timer_task' = "done" /\ UNCHANGED game_state
       ELSE /\ game_timer_task' = "sleeping"
            /\ IF game_state.current_turn # <<>>
                  /\ game_state.current_turn[1].expired
               THEN \E instruction \in Instructions :
                       game_state' = start_new_turn(game_state, instruction)
               ELSE UNCHANGED game_state
    /\ UNCHANGED <<anvars, envvars, devvars, wrvars, rdvars, analyzer, notified,
                   data, position, result, evaluated, raised, added,
                   viz_update_counter, points, stats_updates, rows, processed,
                   mounted, setup, is_paused, shutting_down, exited,
                   capture_task, req>>

\* _game_timer_loop from one await to the next: the while condition, then
\* sleep when paused, else a new turn if the current one has expired
TimerStep ==
    /\ Running
    /\ game_timer_task \in {"created", "sleeping"}
    /\ IF shutting_down \/ ~game_state.exists \/ game_state.is_finished
       THEN game_timer_task' = "done" /\ UNCHANGED game_state
       ELSE /\ game_timer_task' = "sleeping"
            /\ IF ~is_paused /\ game_state.current_turn # <<>>
                  /\ game_state.current_turn[1].expired
               THEN \E instruction \in Instructions :
                       game_state' = start_new_turn(game_state, instruction)
               ELSE UNCHANGED game_state
    /\ UNCHANGED <<anvars, envvars, devvars, wrvars, rdvars, analyzer, notified,
                   data, position, result, evaluated, raised, added,
                   viz_update_counter, points, stats_updates, rows, processed,
                   mounted, setup, is_paused, shutting_down, exited,
                   capture_task, req>>

\* the cancelled timer task resumes: CancelledError at its await
TimerCancelled ==
    /\ Running
    /\ game_timer_task = "cancelling"
    /\ game_timer_task' = "cancelled"
    /\ UNCHANGED <<anvars, envvars, devvars, wrvars, rdvars, analyzer, notified,
                   loopvars, mounted, setup, is_paused, shutting_down, exited,
                   capture_task, req>>

\* time passes: GameTurn.is_expired becomes true for the current turn
TurnExpires ==
    /\ ~exited
    /\ game_state.current_turn # <<>>
    /\ ~game_state.current_turn[1].expired
    /\ Len(game_state.turn_history) + 1 < MaxTurns
    /\ game_state' = [game_state EXCEPT !.current_turn[1].expired = TRUE]
    /\ UNCHANGED <<anvars, envvars, devvars, wrvars, rdvars, analyzer, notified,
                   data, position, result, evaluated, raised, added,
                   viz_update_counter, points, stats_updates, rows, processed,
                   mounted, setup, is_paused, shutting_down, exited,
                   capture_task, game_timer_task, req>>

\* action_pause
Pause ==
    /\ Running
    /\ ~is_paused
    /\ is_paused' = TRUE
    /\ UNCHANGED <<anvars, envvars, devvars, wrvars, rdvars, analyzer, notified,
                   loopvars, mounted, setup, shutting_down, exited,
                   capture_task, game_timer_task, req>>

\* action_resume
Resume ==
    /\ Running
    /\ is_paused
    /\ is_paused' = FALSE
    /\ UNCHANGED <<anvars, envvars, devvars, wrvars, rdvars, analyzer, notified,
                   loopvars, mounted, setup, shutting_down, exited,
                   capture_task, game_timer_task, req>>

\* action_finish_game, in a game mode
FinishGame ==
    /\ Running
    /\ game_state.exists
    /\ game_state' = finish_game(game_state)
    /\ UNCHANGED <<anvars, envvars, devvars, wrvars, rdvars, analyzer, notified,
                   data, position, result, evaluated, raised, added,
                   viz_update_counter, points, stats_updates, rows, processed,
                   mounted, setup, is_paused, shutting_down, exited,
                   capture_task, game_timer_task, req>>

(***************************************************************************)
(* Shutdown.  A request is a _graceful_shutdown coroutine: the quit action *)
(* awaits one, the signal handler creates a task for one unless the flag   *)
(* is already set.                                                         *)
(***************************************************************************)
\* the q key
Quit ==
    /\ Running
    /\ Len(req) < MaxRequests
    /\ req' = Append(req, [pc |-> "pending"])
    /\ UNCHANGED <<anvars, envvars, devvars, wrvars, rdvars, analyzer, notified,
                   loopvars, mounted, setup, is_paused, shutting_down, exited,
                   capture_task, game_timer_task>>

\* SIGINT / SIGTERM with the event loop at hand; the handler runs between
\* any two instructions of the main thread
Signal ==
    /\ mounted
    /\ ~exited
    /\ ~shutting_down
    /\ Len(req) < MaxRequests
    /\ req' = Append(req, [pc |-> "pending"])
    /\ UNCHANGED <<anvars, envvars, devvars, wrvars, rdvars, analyzer, notified,
                   loopvars, mounted, setup, is_paused, shutting_down, exited,
                   capture_task, game_timer_task>>

\* SIGINT / SIGTERM before on_mount: _emergency_cleanup finds no device
\* and no writer yet, then sys.exit(0)
SignalUnmounted ==
    /\ setup = "scheduled"
    /\ ~mounted
    /\ ~exited
    /\ Len(req) < MaxRequests
    /\ req' = Append(req, [pc |-> "emergency"])
    /\ exited' = TRUE
    /\ UNCHANGED <<anvars, envvars, devvars, wrvars, rdvars, analyzer, notified,
                   loopvars, mounted, setup, is_paused, shutting_down,
                   capture_task, game_timer_task>>

\* a task that has been created and is not done
Active(task) == task \in {"created", "sleeping", "paused", "cancelling"}

\* the capture task is neither cancelled nor awaited
cleanup_NoCancel(i, stage) ==
    LET stop_timer == /\ stage \in {"capture", "timer"}
                      /\ Active(game_timer_task)
        finish == ~stop_timer
    IN /\ capture_task' = capture_task
       /\ game_timer_task' = IF stop_timer THEN "cancelling" ELSE game_timer_task
       /\ req' = [req EXCEPT ![i].pc = IF stop_timer THEN "wait_timer"
                                       ELSE "done"]
       /\ IF finish /\ device /\ is_connected
          THEN disconnect
          ELSE UNCHANGED <<is_connected, serial_open, serial_closes>>
       /\ IF finish /\ writer
          THEN writer_exit
          ELSE UNCHANGED <<csv_file, file_closes>>
       /\ exited' = finish

\* the device is disconnected and the writer closed at the start of cleanup
cleanup_ReleasesFirst(i, stage) ==
    LET stop_capture == stage = "capture" /\ Active(capture_task)
        stop_timer == /\ ~stop_capture
                      /\ stage \in {"capture", "timer"}
                      /\ Active(game_timer_task)
        finish == ~stop_capture /\ ~stop_timer
        release == stage = "capture"
    IN /\ capture_task' = IF stop_capture THEN "cancelling" ELSE capture_task
       /\ game_timer_task' = IF stop_timer THEN "cancelling" ELSE game_timer_task
       /\ req' = [req EXCEPT ![i].pc = IF stop_capture THEN "wait_capture"
                                       ELSE IF stop_timer THEN "wait_timer"
                                       ELSE "done"]
       /\ IF release /\ device /\ is_connected
          THEN disconnect
          ELSE UNCHANGED <<is_connected, serial_open, serial_closes>>
       /\ IF release /\ writer
          THEN writer_exit
          ELSE UNCHANGED <<csv_file, file_closes>>
       /\ exited' = finish

\* cleanup from the given stage to its next await or to its end, then
\* self.exit(): cancel and await the capture task, cancel and await the
\* timer task (wait_for returns when the task has ended, with
\* CancelledError or TimeoutError, both of which are passed over),
\* disconnect a connected device, close the writer
cleanup(i, stage) ==
    LET stop_capture == stage = "capture" /\ Active(capture_task)
        stop_timer == /\ ~stop_capture
                      /\ stage \in {"capture", "timer"}
                      /\ Active(game_timer_task)
        finish == ~stop_capture /\ ~stop_timer
    IN /\ capture_task' = IF stop_capture THEN "cancelling" ELSE capture_task
       /\ game_timer_task' = IF stop_timer THEN "cancelling" ELSE game_timer_task
       /\ req' = [req EXCEPT ![i].pc = IF stop_capture THEN "wait_capture"
                                       ELSE IF stop_timer THEN "wait_timer"
                                       ELSE "done"]
       /\ IF finish /\ device /\ is_connected
          THEN disconnect
          ELSE UNCHANGED <<is_connected, serial_open, serial_closes>>
       /\ IF finish /\ writer
          THEN writer_exit
          ELSE UNCHANGED <<csv_file, file_closes>>
       /\ exited' = finish

\* every request runs cleanup, whatever the flag says
ShutdownRun_NoGuard ==
    /\ Running
    /\ \E i \in DOMAIN req :
        /\ req[i].pc = "pending"
        /\ \A j \in 1..(i - 1) : req[j].pc # "pending"
        /\ shutting_down' = TRUE
        /\ cleanup(i, "capture")
    /\ UNCHANGED <<anvars, envvars, rdvars, analyzer, notified, loopvars,
                   device, dev_offset, gen, writer, mounted, setup, is_paused>>

\* _graceful_shutdown from its start: return if the flag is set, else set
\* it and run cleanup; the event loop starts coroutines in the order of
\* their creation
ShutdownRun ==
    /\ Running
    /\ \E i \in DOMAIN req :
        /\ req[i].pc = "pending"
        /\ \A j \in 1..(i - 1) : req[j].pc # "pending"
        /\ IF shutting_down
           THEN /\ req' = [req EXCEPT ![i].pc = "returned"]
                /\ UNCHANGED <<shutting_down, capture_task, game_timer_task,
                               is_connected, serial_open, serial_closes,
                               csv_file, file_closes, exited>>
           ELSE shutting_down' = TRUE /\ cleanup(i, "capture")
    /\ UNCHANGED <<anvars, envvars, rdvars, analyzer, notified, loopvars,
                   device, dev_offset, gen, writer, mounted, setup, is_paused>>

\* cleanup resumes when the task it awaits has ended
ShutdownResume ==
    /\ Running
    /\ \E i \in DOMAIN req :
        \/ /\ req[i].pc = "wait_capture"
           /\ ~Active(capture_task)
           /\ cleanup(i, "timer")
        \/ /\ req[i].pc = "wait_timer"
           /\ ~Active(game_timer_task)
           /\ cleanup(i, "end")
    /\ UNCHANGED <<anvars, envvars, rdvars, analyzer, notified, loopvars,
                   device, dev_offset, gen, writer, mounted, setup, is_paused,
                   shutting_down>>

NextApp ==
    \/ RunMode \/ OnMount \/ SetupLiveStart \/ Connect \/ SetupLive \/ SetupFile
    \/ CaptureChunk \/ CaptureNoData \/ DataArrives \/ CaptureNotConnected
    \/ PlaybackStep \/ CaptureCancelled \/ GenFinalize
    \/ TimerStep \/ TimerCancelled \/ TurnExpires
    \/ Pause \/ Resume \/ FinishGame
    \/ Quit \/ Signal \/ SignalUnmounted \/ ShutdownRun \/ ShutdownResume

SpecApp == InitRun /\ [][NextApp]_vars

(***************************************************************************)
(* GameState on its own: the constructor and then its three methods in     *)
(* any order, add_anomaly with every level and every sign of z-score.      *)
(***************************************************************************)
GameAnomalies ==
    {AnomalyResult(1, z, 0, sig, "frequency") :
        z \in {-3000, 0, 3000}, sig \in {"***", "**", "*", ""}}

\* BucketScores.total
total(scores) ==
    (scores.red_up + scores.orange_up + scores.yellow_up)
    + (scores.red_down + scores.orange_down + scores.yellow_down)

InitGame ==
    /\ window_size = AppWindow
    /\ sensitivity = DefaultSensitivity
    /\ stream = <<>>
    /\ classified = <<>>
    /\ InitAnalyzer
    /\ NoApp

gamerest == <<anvars, envvars, devvars, wrvars, rdvars, analyzer, notified,
              data, position, result, evaluated, raised, added,
              viz_update_counter, points, stats_updates, rows, processed,
              mounted, setup, is_paused, shutting_down, exited,
              capture_task, game_timer_task, req>>

\* GameState()
GameNew ==
    /\ ~game_state.exists
    /\ game_state' = [NoGameState EXCEPT !.exists = TRUE]
    /\ UNCHANGED gamerest

GameStartNewTurn ==
    /\ game_state.exists
    /\ Len(game_state.turn_history) + Len(game_state.current_turn) <= MaxTurns
    /\ \E instruction \in Instructions :
           game_state' = start_new_turn(game_state, instruction)
    /\ UNCHANGED gamerest

GameAddAnomaly ==
    /\ game_state.exists
    /\ total(sum_scores(game_state.turn_history \o game_state.current_turn,
                        Len(game_state.turn_history)
                        + Len(game_state.current_turn))) < MaxAdds
    /\ \E anomaly \in GameAnomalies :
           game_state' = add_anomaly(game_state, anomaly)
    /\ UNCHANGED gamerest

GameFinish ==
    /\ game_state.exists
    /\ game_state' = finish_game(game_state)
    /\ UNCHANGED gamerest

NextGame == GameNew \/ GameStartNewTurn \/ GameAddAnomaly \/ GameFinish

SpecGame == InitGame /\ [][NextGame]_vars

(***************************************************************************)
(* The same run with I/O faults: a write to the capture file raises, the   *)
(* serial read raises, a row of the replayed file does not parse.          *)
(***************************************************************************)

\* csv_writer.writerow raises OSError at the fail_at-th byte of the chunk:
\* the bytes before it are done, this byte is fed and shown but not
\* written, and the exception leaves both for loops
CaptureWriteFails ==
    /\ Running
    /\ mode \in LiveModes
    /\ Waiting(capture_task)
    /\ is_connected
    /\ writer
    /\ csv_file = "open"
    /\ ~is_paused
    /\ ~shutting_down
    /\ \E n \in ChunkLens :
        /\ dev_offset + n <= MaxUnits
        /\ \E fail_at \in 1..n : TakeChunk(n, fail_at)

\* serial_conn.read raises inside stream_bytes, at once or after a wait
\* for data: the generator's finally disconnects, the exception reaches the
\* except clause of the loop, which notifies; the coroutine ends
CaptureReadFails ==
    /\ ~exited
    /\ mounted
    /\ mode \in LiveModes
    /\ Waiting(capture_task) \/ capture_task = "spinning"
    /\ is_connected
    /\ LeaveCapture
    /\ notified' = notified \cup {"capture_error"}
    /\ UNCHANGED <<anvars, envvars, wrvars, rdvars, analyzer, loopvars,
                   device, dev_offset,
                   mounted, setup, is_paused, shutting_down, exited,
                   game_timer_task, req>>

\* the next row does not parse (int / float raise ValueError in
\* iter_records): the exception reaches the except clause of the loop,
\* which notifies; the coroutine ends
PlaybackReadFails ==
    /\ Running
    /\ mode \in ReplayModes
    /\ Waiting(capture_task)
    /\ read_idx < Len(file)
    /\ analyzer' = (analyzer \/ mode = "game_file")
    /\ capture_task' = "done"
    /\ notified' = notified \cup {"capture_error"}
    /\ UNCHANGED <<anvars, envvars, devvars, wrvars, rdvars, loopvars,
                   mounted, setup, is_paused, shutting_down, exited,
                   game_timer_task, req>>

\* cleanup has come to `self.device.disconnect()` and serial_conn.close()
\* raises: is_connected is not reset, the exception leaves cleanup before
\* the writer is looked at, _graceful_shutdown notifies it and exits; the
\* port is left open or closed
ShutdownDisconnectFails ==
    /\ Running
    /\ device
    /\ is_connected
    /\ serial_open
    /\ ~Active(game_timer_task)
    /\ \E i \in DOMAIN req :
        /\ \/ /\ req[i].pc = "pending"
              /\ \A j \in 1..(i - 1) : req[j].pc # "pending"
              /\ ~shutting_down
              /\ ~Active(capture_task)
           \/ req[i].pc = "wait_capture" /\ ~Active(capture_task)
           \/ req[i].pc = "wait_timer"
        /\ req' = [req EXCEPT ![i].pc = "done"]
    /\ shutting_down' = TRUE
    /\ exited' = TRUE
    /\ notified' = notified \cup {"shutdown_error"}
    /\ serial_open' \in BOOLEAN
    /\ UNCHANGED <<anvars, envvars, wrvars, rdvars, analyzer, loopvars,
                   device, is_connected, serial_closes, dev_offset, gen,
                   mounted, setup, is_paused, capture_task, game_timer_task>>

NextAppFaults ==
    \/ NextApp
    \/ CaptureWriteFails \/ CaptureReadFails \/ PlaybackReadFails
    \/ ShutdownDisconnectFails

SpecAppFaults == InitRun /\ [][NextAppFaults]_vars

(***************************************************************************)
(* The capture file on its own: a writer is opened, records are written    *)
(* through it, it is closed, and a reader reads the file.  The file is the *)
(* first line (header) and the lines after it (lines).                     *)
(***************************************************************************)
\* BitstreamRecord(...)
BitstreamRecord(pos, timestamp, byte_value, anomaly_type, z_score, p_value, sig) ==
    [position |-> pos, timestamp |-> timestamp, byte_value |-> byte_value,
     anomaly_type |-> anomaly_type, z_score |-> z_score, p_value |-> p_value,
     significance |-> sig]

\* the records written: each optional field None or present, a present
\* significance being a tier or the empty tier
RecordInputs ==
    {BitstreamRecord(pos, 1500, 255, type, z, p, sig) :
        pos \in {1, 12}, type \in {<<>>, <<"frequency">>},
        z \in {<<>>, <<-3250>>, <<3000>>}, p \in {<<>>, <<1200>>},
        sig \in {<<>>, <<"">>, <<"**">>}}

\* the columns of the CSV part
fieldnames ==
    <<"position", "timestamp", "byte_value", "anomaly_type", "z_score",
      "p_value", "significance">>

\* csv.DictWriter.writerow(asdict(record)): None is written as the empty
\* string, any other value as its str; the cells are joined by commas
writerow(record) ==
    Join([i \in DOMAIN fieldnames |->
            LET name == fieldnames[i]
                value == record[name]
            IN IF name \in {"position", "byte_value"} THEN str_int(value)
               ELSE IF name = "timestamp" THEN str_float(value, 3)
               ELSE IF value = <<>> THEN <<>>
               ELSE IF name = "z_score" THEN str_float(value[1], 3)
               ELSE IF name = "p_value" THEN str_float(value[1], 6)
               ELSE str_str(value[1])], ",")

\* csv.DictReader(f): the first line gives the keys, every other line is a
\* row, the dict of its cells by key
DictReader(ls) ==
    LET names == Split(ls[1], ",")
    IN [k \in 1..(Len(ls) - 1) |->
           LET cells == Split(ls[k + 1], ",")
           IN [name \in {text_str(names[i]) : i \in DOMAIN names} |->
                  cells[CHOOSE i \in DOMAIN names : text_str(names[i]) = name]]]

\* the first data line is taken for the CSV header
iter_records_NoSkip(ls) ==
    LET csv_reader == DictReader(Tail(ls))
    IN [k \in DOMAIN csv_reader |->
           LET row == csv_reader[k]
           IN BitstreamRecord(
                  int_of(row["position"]), float_of(row["timestamp"], 3),
                  int_of(row["byte_value"]),
                  IF row["anomaly_type"] # <<>>
                  THEN <<text_str(row["anomaly_type"])>> ELSE <<>>,
                  IF row["z_score"] # <<>>
                  THEN <<float_of(row["z_score"], 3)>> ELSE <<>>,
                  IF row["p_value"] # <<>>
                  THEN <<float_of(row["p_value"], 6)>> ELSE <<>>,
                  IF row["significance"] # <<>>
                  THEN <<text_str(row["significance"])>> ELSE <<>>)]

\* BitstreamReader.iter_records, the first line of the file skipped: an
\* optional field whose cell is empty is None
iter_records(ls) ==
    LET csv_reader == DictReader(ls)
    IN [k \in DOMAIN csv_reader |->
           LET row == csv_reader[k]
           IN BitstreamRecord(
                  int_of(row["position"]), float_of(row["timestamp"], 3),
                  int_of(row["byte_value"]),
                  IF row["anomaly_type"] # <<>>
                  THEN <<text_str(row["anomaly_type"])>> ELSE <<>>,
                  IF row["z_score"] # <<>>
                  THEN <<float_of(row["z_score"], 3)>> ELSE <<>>,
                  IF row["p_value"] # <<>>
                  THEN <<float_of(row["p_value"], 6)>> ELSE <<>>,
                  IF row["significance"] # <<>>
                  THEN <<text_str(row["significance"])>> ELSE <<>>)]

InitStorage ==
    /\ window_size \in {10, 1000}
    /\ sensitivity \in Sensitivities
    /\ stream = <<>>
    /\ classified = <<>>
    /\ InitAnalyzer
    /\ InitApp
    /\ mode = "none"
    /\ connect_outcome = "ok"
    /\ save_path = TRUE
    /\ open_outcome = "ok"
    /\ header = NoHeader
    /\ file = <<>>
    /\ lines = <<>>
    /\ NoCli

storagerest == <<anvars, data, position, result, evaluated, raised, added,
                 mode, connect_outcome, save_path, open_outcome, fs, resolved,
                 mounted, setup, is_paused, shutting_down, exited, devvars,
                 analyzer, read_idx, capture_task, viz_update_counter, points,
                 stats_updates, processed, notified, game_timer_task,
                 game_state, req>>

\* BitstreamWriter(filepath, metadata).__enter__(): the metadata line, then
\* the CSV header
WriterEnter ==
    /\ csv_file = "none"
    /\ writer' = TRUE
    /\ csv_file' = "open"
    /\ header' = first_line(create_capture_metadata(
                                DeviceStatus, window_size, sensitivity))
    /\ lines' = <<Join([i \in DOMAIN fieldnames |-> <<fieldnames[i]>>], ",")>>
    /\ UNCHANGED <<file_closes, rows, file, reader, storagerest>>

\* BitstreamWriter.write_record on the open file
WriteRecord ==
    /\ csv_file = "open"
    /\ Len(rows) < MaxRows
    /\ \E record \in RecordInputs :
          /\ rows' = Append(rows, record)
          /\ lines' = Append(lines, writerow(record))
    /\ UNCHANGED <<header, wrvars, file, reader, storagerest>>

\* BitstreamWriter.__exit__
WriterExit ==
    /\ csv_file = "open"
    /\ writer_exit
    /\ UNCHANGED <<header, lines, writer, rows, file, reader, storagerest>>

\* BitstreamReader(filepath): load_metadata, then load_all_records, on the
\* closed file
ReadFile ==
    /\ csv_file = "closed"
    /\ ~reader
    /\ load_metadata(header) = ""
    /\ reader' = TRUE
    /\ file' = iter_records(lines)
    /\ UNCHANGED <<header, lines, wrvars, rows, storagerest>>

NextStorage ==
    \/ WriterEnter
    \/ WriteRecord
    \/ WriterExit
    \/ ReadFile

SpecStorage == InitStorage /\ [][NextStorage]_vars

(***************************************************************************)
(* rng_viz/cli.py: resolve_capture_path.  A name is a text, a path the     *)
(* sequence of its names from the root, which is a directory; the file     *)
(* system is the set of the <<path, kind>> that exist, the parent of each  *)
(* being a directory.                                                      *)
(***************************************************************************)
Names ==
    {<<"captures">>, <<"session1">>, <<".", "hidden">>,
     <<"my_capture", ".", "csv">>}

RECURSIVE PathsOf(_)
PathsOf(depth) ==
    IF depth = 0 THEN {<<>>}
    ELSE PathsOf(depth - 1)
         \cup {Append(p, name) : p \in PathsOf(depth - 1), name \in Names}

\* the paths the function is called with
InputPaths == PathsOf(MaxDepth) \ {<<>>}

\* path.parent
Parent(path) == SubSeq(path, 1, Len(path) - 1)

\* path.exists()
exists(tree, path) == path = <<>> \/ \E e \in tree : e[1] = path

\* path.is_dir()
is_dir(tree, path) == path = <<>> \/ <<path, "dir">> \in tree

\* the file systems of at most n entries, made entry by entry
RECURSIVE TreesOf(_)
TreesOf(n) ==
    IF n = 0 THEN {{}}
    ELSE LET smaller == TreesOf(n - 1)
         IN smaller
            \cup {tree \cup {<<path, kind>>} :
                     tree \in smaller, path \in InputPaths, kind \in {"dir", "file"}}

\* the file systems before the call
Trees ==
    {tree \in TreesOf(MaxEntries) :
        /\ \A e \in tree : is_dir(tree, Parent(e[1]))
        /\ \A e \in tree : <<e[1], "dir">> \notin tree \/ <<e[1], "file">> \notin tree}

\* PurePath.suffix: from the last dot of the name, unless the dot is the
\* first or the last character
suffix(name) ==
    IF \E i \in 2..(Len(name) - 1) : name[i] = "."
    THEN LET i == CHOOSE k \in 2..(Len(name) - 1) :
                     name[k] = "." /\ \A j \in (k + 1)..(Len(name) - 1) : name[j] # "."
         IN SubSeq(name, i, Len(name))
    ELSE <<>>

\* is_directory_path: str(path) of a path that has a name never ends with a
\* separator
is_directory_path(tree, path) ==
    \/ exists(tree, path) /\ is_dir(tree, path)
    \/ suffix(path[Len(path)]) = <<>> /\ path[Len(path)][1] # "."

\* generate_timestamped_filename: the time of the call is "now"
generate_timestamped_filename == <<"rng_capture_now", ".", "csv">>

\* the leading parts of a path, the path included
Ancestors(path) == {SubSeq(path, 1, k) : k \in 1..Len(path)}

\* path.mkdir(parents=True, exist_ok=True): raises when the path or one of
\* its ancestors is a file
mkdir(tree, path) ==
    IF \E a \in Ancestors(path) : <<a, "file">> \in tree
    THEN [raised |-> TRUE, tree |-> tree]
    ELSE [raised |-> FALSE,
          tree |-> tree \cup {<<a, "dir">> : a \in Ancestors(path)}]

\* mkdir of the path unless it exists, then the outcome of the call
made(tree, path, returned) ==
    LET m == IF exists(tree, path) THEN [raised |-> FALSE, tree |-> tree]
             ELSE mkdir(tree, path)
    IN [raised |-> m.raised, tree |-> m.tree,
        returned |-> IF m.raised THEN <<>> ELSE returned]

\* resolve_capture_path(path); confirm is the answer to click.confirm
resolve_capture_path(tree, path, confirm) ==
    LET generated == Append(path, generate_timestamped_filename)
    IN IF is_directory_path(tree, path) THEN made(tree, path, generated)
       ELSE IF suffix(path[Len(path)]) # <<>>
       THEN made(tree, Parent(path), path)
       ELSE IF exists(tree, Parent(path))
       THEN [raised |-> FALSE, tree |-> tree, returned |-> path]
       ELSE IF confirm THEN mkdir(tree, path) @@ [returned |-> generated]
       ELSE made(tree, Parent(path), path)

InitCli ==
    /\ window_size = AppWindow
    /\ sensitivity = DefaultSensitivity
    /\ stream = <<>>
    /\ classified = <<>>
    /\ InitAnalyzer
    /\ InitApp
    /\ mode = "none"
    /\ connect_outcome = "ok"
    /\ save_path = TRUE
    /\ open_outcome = "ok"
    /\ header = NoHeader
    /\ file = <<>>
    /\ lines = <<>>
    /\ fs \in Trees
    /\ resolved = <<>>

\* main: `live = resolve_capture_path(live)`
Resolve ==
    /\ resolved = <<>>
    /\ \E path \in InputPaths, confirm \in BOOLEAN :
          LET call == resolve_capture_path(fs, path, confirm)
          IN /\ fs' = call.tree
             /\ resolved' = <<[path |-> path, before |-> fs,
                               raised |-> call.raised,
                               returned |-> call.returned]>>
    /\ UNCHANGED <<anvars, data, position, result, evaluated, raised, added,
                   mode, connect_outcome, save_path, open_outcome, header, file,
                   lines, mounted, setup, is_paused, shutting_down, exited,
                   devvars, wrvars, rdvars, analyzer, capture_task,
                   viz_update_counter, points, stats_updates, rows, processed,
                   notified, game_timer_task, game_state, req>>

NextCli == Resolve

SpecCli == InitCli /\ [][NextCli]_vars

(***************************************************************************)
(* Properties.                                                             *)
(***************************************************************************)
AllTests == <<"frequency", "runs", "chi_square">>

HasType(t) == \E i \in DOMAIN result : result[i].test_type = t

\* the window is full and holds the bytes the last add_byte call tested
Tested == Len(added) >= 1 /\ is_full(data, window_size)

\* bit counts of the current window
WindowOnes == SumBits(get_bits(data))
WindowZeros == 8 * Len(data) - WindowOnes

\* p-values of the three tests on the current window
FrequencyP == two_tailed_p(frequency_z(WindowOnes, 8 * Len(data)))
RunsDefined ==
    /\ WindowOnes # 0
    /\ WindowZeros # 0
    /\ runs_variance(WindowOnes, WindowZeros, 8 * Len(data)) > 0
RunsP ==
    two_tailed_p(runs_z(count_runs(get_bits(data)), WindowOnes, WindowZeros,
                        8 * Len(data),
                        runs_variance(WindowOnes, WindowZeros, 8 * Len(data))))
ChiSquareP == chi2_upper_p(chi2_stat(data))

\* C1: after any number of add_byte calls the window holds exactly the
\* min(N, calls) most recently added bytes in insertion order; its length
\* never exceeds N and is_full() is true exactly when the length equals N,
\* that is from the N-th call on.
C1_WindowHoldsMostRecent ==
    /\ Len(data) <= window_size
    /\ Len(data) = (IF Len(added) < window_size THEN Len(added) ELSE window_size)
    /\ data = SubSeq(added, Len(added) - Len(data) + 1, Len(added))
    /\ (is_full(data, window_size) <=> Len(data) = window_size)
    /\ (is_full(data, window_size) <=> Len(added) >= window_size)

\* more than N bytes were added and the oldest ones have been evicted
C1_Witness ==
    /\ Len(added) > window_size
    /\ Len(data) = window_size
    /\ data # SubSeq(added, 1, window_size)

\* C2: each of the first N-1 add_byte calls returns an empty list and enters
\* none of the three tests; the N-th call and every later call enters all
\* three.
C2_NoTestBeforeFull ==
    Len(added) >= 1 =>
        /\ (Len(added) < window_size => result = <<>> /\ evaluated = <<>>)
        /\ (Len(added) >= window_size => evaluated = AllTests)

\* the N-th call of an analyzer with N > 1 has run the tests
C2_Witness ==
    /\ window_size > 1
    /\ Len(added) = window_size
    /\ evaluated = AllTests
    /\ result # <<>>

\* C3: every returned anomaly, of every test type, has p_value strictly
\* below the sensitivity, and a test whose p-value is at or above the
\* sensitivity contributes no anomaly.
C3_OnlyBelowSensitivity ==
    /\ \A i \in DOMAIN result : result[i].p_value < sensitivity
    /\ Tested =>
          /\ (FrequencyP >= sensitivity => ~HasType("frequency"))
          /\ (RunsDefined /\ RunsP >= sensitivity => ~HasType("runs"))
          /\ (ChiSquareP >= sensitivity => ~HasType("chi_square"))

\* two tests fire while the runs test, computed with a p-value at or above
\* the sensitivity, is left out
C3_Witness ==
    /\ Tested
    /\ HasType("frequency")
    /\ HasType("chi_square")
    /\ RunsDefined
    /\ RunsP >= sensitivity
    /\ ~HasType("runs")

Rank(t) ==
    CASE t = "frequency" -> 1
      [] t = "runs" -> 2
      [] t = "chi_square" -> 3
      [] OTHER -> 0

\* C4: one add_byte call returns at most one anomaly per test type, at most
\* three in all, in the order frequency, runs, chi_square; every test_type
\* is one of these three and every significance_level one of "", "*", "**",
\* "***".
C4_OnePerTestInOrder ==
    /\ Len(result) <= 3
    /\ \A i \in DOMAIN result :
          /\ result[i].test_type \in {"frequency", "runs", "chi_square"}
          /\ result[i].significance_level \in {"", "*", "**", "***"}
    /\ \A i, j \in DOMAIN result :
          i < j => Rank(result[i].test_type) < Rank(result[j].test_type)

\* all three tests fire for the same position
C4_Witness ==
    /\ Len(result) = 3
    /\ HasType("frequency") /\ HasType("runs") /\ HasType("chi_square")

\* C5: position starts at 0 and grows by exactly 1 on every add_byte call,
\* full window or not, anomaly or not; every returned anomaly carries the
\* number of bytes added so far, so the positions of successively returned
\* anomalies never decrease.
C5_PositionCountsCalls ==
    /\ [](/\ position = Len(added)
          /\ \A i \in DOMAIN result : result[i].position = Len(added))
    /\ [][/\ (added' # added => position' = position + 1)
          /\ (added' = added => position' = position)
          /\ \A i \in DOMAIN result : \A j \in DOMAIN result' :
                result[i].position <= result'[j].position]_vars

\* an anomaly returned after calls that returned nothing and calls that fired
C5_Witness ==
    /\ window_size > 1
    /\ position > window_size
    /\ result # <<>>
    /\ result[1].position = position

\* the tier of a p-value (ppm) by the specified thresholds
Tier(p) ==
    IF p < 1000 THEN "***"
    ELSE IF p < 10000 THEN "**"
    ELSE IF p < 50000 THEN "*"
    ELSE ""

Strength(level) ==
    CASE level = "***" -> 3
      [] level = "**" -> 2
      [] level = "*" -> 1
      [] OTHER -> 0

\* C6: the significance level of a p-value is the symbol of the first of the
\* thresholds 0.001, 0.01, 0.05 strictly greater than it ("***", "**", "*")
\* and "" if there is none; a smaller p-value never gets a weaker tier.
C6_SignificanceClassification ==
    /\ \A i \in DOMAIN classified :
          classified[i].level = Tier(classified[i].p_value)
    /\ (Len(classified) = 2 /\ classified[1].p_value < classified[2].p_value)
          => Strength(classified[1].level) >= Strength(classified[2].level)

\* two classifications in different tiers, one of them exactly on a threshold
C6_Witness ==
    /\ Len(classified) = 2
    /\ classified[1].p_value = 999 /\ classified[1].level = "***"
    /\ classified[2].p_value = 1000 /\ classified[2].level = "**"

\* C7: an analyzer whose window holds fewer than 50 bytes never returns a
\* chi_square anomaly, whatever the bytes.
C7_NoChiSquareBelow50 ==
    window_size < 50 => ~HasType("chi_square")

\* a full window of 49 bytes whose histogram is far from uniform
C7_Witness ==
    /\ window_size = 49
    /\ Tested
    /\ ChiSquareP < sensitivity
    /\ evaluated = AllTests
    /\ ~HasType("chi_square")

\* C8: when the full window has no 0 bit or no 1 bit, or the runs variance
\* is <= 0, the call returns no runs anomaly and raises nothing, and the
\* frequency and chi-square tests are evaluated for that position.
C8_DegenerateRunsSkipped ==
    (/\ Tested
     /\ \/ WindowOnes = 0
        \/ WindowZeros = 0
        \/ runs_variance(WindowOnes, WindowZeros, 8 * Len(data)) <= 0)
    => /\ ~HasType("runs")
       /\ raised = ""
       /\ evaluated = AllTests

\* a full window of all-zero bits on which the other two tests fire
C8_Witness ==
    /\ Tested
    /\ WindowOnes = 0
    /\ HasType("frequency")
    /\ HasType("chi_square")
    /\ raised = ""

\* Scenario A: window_size = 100, sensitivity = 0.05, 100 bytes of 0xFF fed
ScenarioA ==
    /\ window_size = 100
    /\ sensitivity = 50000
    /\ added = [i \in 1..100 |-> 255]

\* C9 as stated: the 100th call returns a frequency anomaly with p_value
\* about 0 and z_score about +10, and ones_ratio is 1.0.
C9_ScenarioA_Original ==
    ScenarioA =>
        /\ \E i \in DOMAIN result :
              /\ result[i].test_type = "frequency"
              /\ result[i].p_value <= 1
              /\ result[i].z_score \in 9500..10500
        /\ get_summary_stats.ones_ratio = 1000000

\* C9 amended: the 100th call returns a frequency anomaly with p_value about
\* 0 and z_score about +28.28 (the square root of the 800 bits), and
\* ones_ratio is 1.0.
C9_ScenarioA ==
    ScenarioA =>
        /\ \E i \in DOMAIN result :
              /\ result[i].test_type = "frequency"
              /\ result[i].position = 100
              /\ result[i].p_value <= 1
              /\ result[i].z_score \in 28180..28380
        /\ get_summary_stats.ones_ratio = 1000000

\* the 100th call of scenario A has returned
C9_Witness ==
    /\ ScenarioA
    /\ position = 100
    /\ HasType("frequency")

\* Scenario B: window_size = 50, sensitivity = 0.01, 50 bytes alternating
\* 0x00 / 0xFF fed
ScenarioB ==
    /\ window_size = 50
    /\ sensitivity = 10000
    /\ added = [i \in 1..50 |-> IF i % 2 = 1 THEN 0 ELSE 255]

\* observed and expected (milli) run counts of the current window
ObservedRuns == count_runs(get_bits(data))
ExpectedRuns == expected_runs(WindowOnes, WindowZeros, 8 * Len(data))

\* C10 as stated: the 50th call returns a runs anomaly, with about 50
\* observed runs against about 25.98 expected.
C10_ScenarioB_Original ==
    ScenarioB =>
        /\ HasType("runs")
        /\ ObservedRuns \in 48..52
        /\ ExpectedRuns \in 25000..27000

\* C10 amended: the 50th call returns a runs anomaly, with 50 observed runs
\* against 201 expected (n = 400 bits, n1 = n0 = 200), z_score about -15.1.
C10_ScenarioB ==
    ScenarioB =>
        /\ \E i \in DOMAIN result :
              /\ result[i].test_type = "runs"
              /\ result[i].position = 50
              /\ result[i].z_score \in -15300..-14900
        /\ ObservedRuns = 50
        /\ ExpectedRuns = 201000

\* the 50th call of scenario B has returned
C10_Witness ==
    /\ ScenarioB
    /\ position = 50
    /\ HasType("runs")

\* the analyzer's own fields
analyzer_state == <<window_size, sensitivity, data, position, anomalies>>

\* C11: get_summary_stats returns the empty map while the window is not full;
\* once it is full the map has total_bits = 8 * window_size,
\* ones_count + zeros_count = total_bits and current_position = position;
\* a call changes no field of the analyzer.
C11_SummaryStats ==
    /\ [](summary.called =>
            IF ~is_full(data, window_size)
            THEN DOMAIN summary.value = {}
            ELSE /\ summary.value.total_bits = 8 * window_size
                 /\ summary.value.ones_count + summary.value.zeros_count
                        = summary.value.total_bits
                 /\ summary.value.current_position = position)
    /\ [][summary'.called => analyzer_state' = analyzer_state]_vars

C11_Witness ==
    /\ summary.called
    /\ is_full(data, window_size)
    /\ position > window_size
    /\ summary.value.ones_count > 0
    /\ summary.value.zeros_count > 0

\* C12: the analyzer never stores an anomaly: its anomaly list stays empty
\* whatever add_byte returns, and the summary reports total_anomalies = 0.
C12_NoAnomalyAccumulated ==
    /\ anomalies = <<>>
    /\ (summary.called /\ is_full(data, window_size))
           => summary.value.total_anomalies = 0

C12_Witness ==
    /\ result # <<>>
    /\ position > window_size
    /\ summary.called
    /\ summary.value.total_anomalies = 0
\* C14: when a unit has anomalies, the marker and the value forwarded are
\* those of an anomaly of largest |z_score|, and every anomaly before it in
\* the list (frequency, runs, chi-square order) has a strictly smaller one.
C14_StrongestForwarded ==
    (points # <<>> /\ result # <<>>) =>
        \E i \in DOMAIN result :
            /\ \A j \in DOMAIN result :
                   Abs(result[j].z_score) <= Abs(result[i].z_score)
            /\ \A j \in 1..(i - 1) :
                   Abs(result[j].z_score) < Abs(result[i].z_score)
            /\ points[1].marker = result[i].significance_level
            /\ points[1].value = z_viz(result[i].z_score)

\* a tie between the first anomaly and a later one of another marker and sign
C14_Witness ==
    /\ points # <<>>
    /\ Len(result) = 3
    /\ Abs(result[1].z_score) = Abs(result[3].z_score)
    /\ Abs(result[2].z_score) < Abs(result[1].z_score)
    /\ result[1].z_score # result[3].z_score
    /\ result[1].significance_level # result[3].significance_level
    /\ points[1].marker = result[1].significance_level
\* the numbers 1, 2, ..., n in order
UpTo(n) == [i \in 1..n |-> i]

\* C13: in a replay that is paused and resumed at will and never cancelled,
\* every record of the file is processed exactly once, in file order.
C13_ReplayLossless ==
    (mode \in ReplayModes /\ capture_task = "done" /\ ~shutting_down)
        => processed = UpTo(Len(file))

\* a replay that ended without cancellation and skipped records
C13_Witness ==
    /\ mode \in ReplayModes
    /\ capture_task = "done"
    /\ ~shutting_down
    /\ read_idx = Len(file)
    /\ Len(processed) < Len(file)
    /\ processed # <<>>

\* what add_byte returned for the i-th byte fed to the analyzer
AnomsAt(i) ==
    RunTests(WindowAt(added, i, window_size), window_size, i, sensitivity).anoms

\* the point of the u-th processed unit
PointOf(u) ==
    IF mode \in LiveModes THEN viz_point(added[u], AnomsAt(u))
    ELSE playback_point(file[processed[u]])

\* C15: after n processed units exactly n div 10 points have been forwarded,
\* those of the 10th, 20th, ... unit, each with one statistics refresh; in
\* the live modes the analyzer has been fed all n units.
C15_Throttle ==
    /\ Len(points) = Len(processed) \div viz_update_frequency
    /\ stats_updates = Len(points)
    /\ \A j \in DOMAIN points : points[j] = PointOf(viz_update_frequency * j)
    /\ mode \in LiveModes =>
           /\ position = Len(processed)
           /\ Len(added) = Len(processed)

C15_Witness ==
    /\ mode \in LiveModes
    /\ Len(processed) > viz_update_frequency
    /\ Len(processed) % viz_update_frequency # 0
    /\ Len(points) = 1
    /\ stats_updates = 1
    /\ position = Len(processed)

\* C16: with a writer attached, every byte fed to the analyzer leaves
\* exactly one row: the analyzer's position after that byte, the byte, and
\* the fields of the first anomaly add_byte returned for it (none if it
\* returned none), whether or not the unit was forwarded.
C16_EveryByteRecorded ==
    (mode \in LiveModes) =>
        IF writer
        THEN /\ Len(rows) = Len(added)
             /\ \A i \in DOMAIN rows : rows[i] = record_of(i, added[i], AnomsAt(i))
        ELSE rows = <<>>

\* a row that carries the first anomaly although a later one is stronger,
\* written for a unit that was not forwarded
C16_Witness ==
    /\ mode \in LiveModes
    /\ writer
    /\ Len(rows) > viz_update_frequency
    /\ \E i \in DOMAIN rows :
           /\ i % viz_update_frequency # 0
           /\ Len(AnomsAt(i)) >= 2
           /\ strongest(AnomsAt(i)) # AnomsAt(i)[1]
           /\ rows[i].anomaly # <<>>
           /\ rows[i].anomaly[1].anomaly_type = AnomsAt(i)[1].test_type
           /\ rows[i].anomaly[1].z_score = AnomsAt(i)[1].z_score
\* the setup meets one of the failures: connect raises or returns False,
\* the capture file cannot be opened, the replayed file's first line is bad
SetupFailure ==
    \/ mode \in LiveModes /\ connect_outcome \in {"raise", "false"}
    \/ mode \in LiveModes /\ save_path /\ open_outcome = "raise"
    \/ mode \in ReplayModes /\ header # GoodHeader

\* C18: a setup failure is fatal to the run: it is reported, no capture or
\* playback task is created and no unit is ever processed.
C18_SetupFailureFatal ==
    SetupFailure =>
        /\ capture_task = "none"
        /\ game_timer_task = "none"
        /\ processed = <<>>
        /\ added = <<>>
        /\ setup \in {"done", "failed"} => "setup_error" \in notified

\* connect returned False and the capture task runs all the same
C18_Witness ==
    /\ connect_outcome = "false"
    /\ setup = "done"
    /\ capture_task = "created"
    /\ ~is_connected
    /\ notified = {}

\* the number of turns started so far
TurnsStarted == Len(game_state.turn_history) + Len(game_state.current_turn)

\* a shutdown request is made and has not run yet
Requested == \E i \in DOMAIN req : req[i].pc = "pending"

\* once shutdown has set the flag and cancelled the tasks, the next step of
\* the capture / replay loop and of the turn timer ends it; no byte is fed,
\* no row written, no unit processed and no turn started any more, paused
\* or not
C19_AfterFlag ==
    [][shutting_down =>
         /\ added' = added
         /\ rows' = rows
         /\ processed' = processed
         /\ points' = points
         /\ read_idx' = read_idx
         /\ dev_offset' = dev_offset
         /\ TurnsStarted' = TurnsStarted
         /\ capture_task' # capture_task =>
                capture_task' \in {"cancelling", "cancelled", "done"}
         /\ game_timer_task' # game_timer_task =>
                game_timer_task' \in {"cancelling", "cancelled", "done"}]_vars

\* a request made while the loop waits for the source to deliver data stops
\* the loop as well: no byte is fed and no row written after it
C19_NoData ==
    [][(capture_task = "spinning" /\ Requested) =>
         (added' = added /\ rows' = rows /\ processed' = processed)]_vars

InCleanup == {i \in DOMAIN req : req[i].pc \in {"wait_capture", "wait_timer", "done"}}

\* C20: whatever the interleaving of the shutdown requests, one of them at
\* most runs cleanup; the port is closed at most once and the capture file
\* at most once, and when cleanup ends both are closed, exactly once, if
\* they were open when it began its last stretch.
C20_ShutdownIdempotent ==
    /\ [](Cardinality(InCleanup) <= 1)
    /\ [](serial_closes <= 1 /\ file_closes <= 1)
    /\ [][(exited' /\ ~exited /\ mounted) =>
             /\ (serial_open \/ serial_closes > 0) =>
                    (serial_closes' = 1 /\ ~serial_open' /\ ~is_connected')
             /\ csv_file # "none" =>
                    (file_closes' = 1 /\ csv_file' = "closed")]_vars

\* two requests, one returned on the flag while the other awaited the
\* capture task and then closed the port and the file
C20_Witness ==
    /\ exited
    /\ Len(req) = 2
    /\ \E i, j \in DOMAIN req : req[i].pc = "done" /\ req[j].pc = "returned"
    /\ capture_task = "cancelled"
    /\ processed # <<>>
    /\ serial_closes = 1
    /\ file_closes = 1
    /\ csv_file = "closed"
    /\ ~serial_open
\* an error is notified on this step by a loop whose source was up
IOFault ==
    /\ "capture_error" \in notified'
    /\ "capture_error" \notin notified
    /\ mode \in LiveModes => is_connected

\* C17: an I/O error in mid-stream (a write to the capture file or a read
\* of the source raises) is caught for that iteration and notified, the
\* application does not exit and the loop goes on: its task is still
\* alive to pull the units that follow.
C17_MidStreamErrorNonFatal ==
    [][IOFault =>
         /\ exited' = exited
         /\ Waiting(capture_task')]_vars

\* a capture that wrote rows ended on a notified error with the device
\* still holding data, and no shutdown was asked for
C17_Witness ==
    /\ mode \in LiveModes
    /\ connect_outcome = "ok"
    /\ capture_task = "done"
    /\ "capture_error" \in notified
    /\ rows # <<>>
    /\ Len(rows) < Len(added)
    /\ dev_offset < MaxUnits
    /\ ~shutting_down
    /\ req = <<>>
\* the turns of a list are distinct GameTurn objects
Distinct(turns) ==
    \A i, j \in DOMAIN turns : i # j => turns[i].start_time # turns[j].start_time

\* C24: finish_game appends the active turn, if any, to turn_history once,
\* clears current_turn and sets is_finished; a second finish_game changes
\* nothing, and no turn is in turn_history twice.
C24_FinishGameIdempotent ==
    game_state.exists =>
        LET finished == finish_game(game_state)
        IN /\ finished.is_finished
           /\ finished.current_turn = <<>>
           /\ finished.turn_history =
                  game_state.turn_history \o game_state.current_turn
           /\ finish_game(finished) = finished
           /\ Distinct(game_state.turn_history \o game_state.current_turn)
           /\ Distinct(finished.turn_history)

\* a game finished with two turns archived, the last of them by finish_game
\* and with anomalies counted
C24_Witness ==
    /\ mode = "none"
    /\ game_state.is_finished
    /\ game_state.current_turn = <<>>
    /\ Len(game_state.turn_history) = 2
    /\ total(game_state.turn_history[2].scores) > 0

\* the counter named by a level and a z-score
CounterOf(level, z_score) ==
    (IF level = "***" THEN "red" ELSE IF level = "**" THEN "orange" ELSE "yellow")
    \o (IF z_score > 0 THEN "_up" ELSE "_down")

\* C25: with a turn active and the game not finished, add_anomaly with
\* level "***", "**" or "*" adds 1 to the one counter of the active turn
\* that the level and the sign of the z-score name (z_score <= 0 is down)
\* and leaves the other five alone; with the empty level it changes nothing.
C25_OneCounterPerAnomaly ==
    (game_state.current_turn # <<>> /\ ~game_state.is_finished) =>
        \A anomaly \in GameAnomalies :
            LET after == add_anomaly(game_state, anomaly)
                old == game_state.current_turn[1].scores
                counter == CounterOf(anomaly.significance_level, anomaly.z_score)
            IN IF anomaly.significance_level = ""
               THEN after = game_state
               ELSE after =
                      [game_state EXCEPT !.current_turn[1].scores =
                          [b \in DOMAIN ZeroScores |->
                              IF b = counter THEN old[b] + 1 ELSE old[b]]]

\* an active turn that has counted a "***" anomaly with z <= 0 and a "*"
\* anomaly with z > 0
C25_Witness ==
    /\ mode = "none"
    /\ game_state.current_turn # <<>>
    /\ ~game_state.is_finished
    /\ game_state.current_turn[1].scores.red_down = 1
    /\ game_state.current_turn[1].scores.yellow_up = 1
    /\ total(game_state.current_turn[1].scores) = 2

\* C26: add_anomaly does nothing when there is no active turn or the game
\* is finished: current_turn, is_finished, turn_history and the counters of
\* the archived turns stay as they are.
C26_AddAnomalyNoOp ==
    (game_state.current_turn = <<>> \/ game_state.is_finished) =>
        \A anomaly \in GameAnomalies :
            add_anomaly(game_state, anomaly) = game_state

\* a finished game that holds a turn in current_turn and one in the history
C26_Witness ==
    /\ mode = "none"
    /\ game_state.is_finished
    /\ game_state.current_turn # <<>>
    /\ game_state.turn_history # <<>>
    /\ total(game_state.turn_history[1].scores) > 0

\* C27: get_overall_stats is the sum over turn_history alone: a call that
\* archives the active turn adds that turn's counters to it, once, and no
\* other call changes it; what the active turn has counted is not in it.
C27_OverallStatsHistoryOnly ==
    /\ [](game_state.turn_history = <<>> =>
             get_overall_stats(game_state) = ZeroScores)
    /\ [][IF Len(game_state'.turn_history) # Len(game_state.turn_history)
           THEN /\ game_state.current_turn # <<>>
                /\ Len(game_state'.turn_history) =
                       Len(game_state.turn_history) + 1
                /\ get_overall_stats(game_state') =
                       [b \in DOMAIN ZeroScores |->
                           get_overall_stats(game_state)[b]
                           + game_state.current_turn[1].scores[b]]
           ELSE get_overall_stats(game_state') =
                   get_overall_stats(game_state)]_vars

\* one turn with anomalies is archived, the active one has counted others
C27_Witness ==
    /\ mode = "none"
    /\ ~game_state.is_finished
    /\ total(get_overall_stats(game_state)) = 2
    /\ game_state.current_turn # <<>>
    /\ total(game_state.current_turn[1].scores) = 1
C28_TurnRotation ==
    /\ [](( /\ Running
            /\ ~shutting_down
            /\ ~is_paused
            /\ ~game_state.is_finished
            /\ game_timer_task \in {"created", "sleeping"}
            /\ game_state.current_turn # <<>>
            /\ game_state.current_turn[1].expired) =>
              ENABLED <<TimerStep>>_game_state)
    /\ [][/\ \A i \in DOMAIN game_state.turn_history :
                 /\ i \in DOMAIN game_state'.turn_history
                 /\ game_state'.turn_history[i] = game_state.turn_history[i]
          /\ (/\ ~game_state'.is_finished
              /\ game_state'.turn_history # game_state.turn_history) =>
                 /\ game_state.current_turn # <<>>
                 /\ game_state.current_turn[1].expired
                 /\ ~is_paused
                 /\ ~game_state.is_finished
                 /\ game_state'.turn_history =
                        Append(game_state.turn_history, game_state.current_turn[1])
                 /\ Len(game_state'.current_turn) = 1
                 /\ game_state'.current_turn[1].scores = ZeroScores
                 /\ ~game_state'.current_turn[1].expired
                 /\ game_state'.current_turn[1].start_time =
                        game_state.current_turn[1].start_time + 1]_vars

\* the first turn counted anomalies and was rotated out, the second turn
\* has counted anomalies of its own, and the game goes on
C28_Witness ==
    /\ mode = "game"
    /\ ~game_state.is_finished
    /\ Len(game_state.turn_history) = 1
    /\ total(game_state.turn_history[1].scores) > 0
    /\ game_state.current_turn # <<>>
    /\ game_state.current_turn[1].start_time = 2
    /\ total(game_state.current_turn[1].scores) > 0
\* C30: once the game is finished the timer loop ends at its next wake-up,
\* paused or not, and rotates nothing; while the application is paused and
\* the game unfinished it neither rotates a turn nor ends.
C30_TimerStopsWhenFinished ==
    /\ []((Running /\ game_state.is_finished
              /\ game_timer_task \in {"created", "sleeping"}) =>
             ENABLED <<TimerStep>>_game_timer_task)
    /\ [][(game_state.is_finished /\ game_timer_task \in {"created", "sleeping"}
              /\ game_timer_task' # game_timer_task) =>
             /\ game_timer_task' \in {"done", "cancelling"}
             /\ game_state' = game_state]_vars
    /\ [][(game_timer_task' = "done" /\ game_timer_task # "done") =>
             (game_state.is_finished \/ shutting_down)]_vars
    /\ [][(is_paused /\ game_state.current_turn # <<>>
              /\ ~game_state'.is_finished) =>
             /\ game_state'.turn_history = game_state.turn_history
             /\ Len(game_state'.current_turn) = 1
             /\ game_state'.current_turn[1].start_time =
                    game_state.current_turn[1].start_time]_vars

\* the game was finished and the timer loop has ended while the
\* application was paused; no shutdown was asked for
C30_Witness ==
    /\ mode = "game"
    /\ is_paused
    /\ ~shutting_down
    /\ req = <<>>
    /\ game_state.is_finished
    /\ game_state.turn_history # <<>>
    /\ game_timer_task = "done"
\* scores with the anomalies anoms[k], anoms[k + 1], ... counted in
RECURSIVE Counted(_, _, _)
Counted(scores, anoms, k) ==
    IF k > Len(anoms) THEN scores
    ELSE Counted(IF anoms[k].significance_level \in {"***", "**", "*"}
                 THEN [scores EXCEPT
                          ![CounterOf(anoms[k].significance_level,
                                      anoms[k].z_score)] = @ + 1]
                 ELSE scores,
                 anoms, k + 1)

\* the anomalies add_byte returned for the positions 1..n, by counter
RECURSIVE Tally(_)
Tally(n) == IF n = 0 THEN ZeroScores ELSE Counted(Tally(n - 1), AnomsAt(n), 1)

\* C29: in a live game the capture loop counts the anomalies of a byte
\* before the timer loop or a finish request can run: while the game is
\* unfinished every anomaly returned so far is counted in one turn exactly
\* (none lost, none twice), the step that analyses bytes counts them in
\* the turn active at that moment and neither rotates nor finishes, and a
\* turn already archived gets none.
C29_AnomalyInActiveTurn ==
    /\ []((mode = "game" /\ ~game_state.is_finished
              /\ game_state.current_turn # <<>>) =>
             sum_scores(game_state.turn_history \o game_state.current_turn,
                        Len(game_state.turn_history) + 1)
                 = Tally(Len(added)))
    /\ [][(mode = "game" /\ added' # added /\ ~game_state.is_finished
              /\ game_state.current_turn # <<>>) =>
             /\ game_state'.turn_history = game_state.turn_history
             /\ ~game_state'.is_finished
             /\ Len(game_state'.current_turn) = 1
             /\ game_state'.current_turn[1].start_time =
                    game_state.current_turn[1].start_time]_vars

\* two chunks were analysed with a rotation between them, and both turns
\* have counted anomalies; the second has counted two on one byte at least
C29_Witness ==
    /\ mode = "game"
    /\ ~game_state.is_finished
    /\ Len(added) >= 14
    /\ Len(game_state.turn_history) = 1
    /\ total(game_state.turn_history[1].scores) > 0
    /\ game_state.current_turn # <<>>
    /\ total(game_state.current_turn[1].scores) > 1
    /\ \E i \in DOMAIN added : Len(AnomsAt(i)) > 1
\* a task that cleanup has not cancelled and that has not ended
Uncancelled(task) == task \in {"created", "sleeping", "paused", "spinning"}

\* C21: cleanup cancels and awaits the capture / replay task, then cancels
\* and awaits the timer task, then disconnects the device and closes the
\* capture file; it goes on when a wait is over, and it releases neither
\* the device nor the file while a task is still to be cancelled or has
\* not ended.
C21_CleanupOrder ==
    /\ []((Running /\ \E i \in DOMAIN req :
                        \/ req[i].pc = "wait_capture" /\ ~Active(capture_task)
                        \/ req[i].pc = "wait_timer" /\ ~Active(game_timer_task))
             => ENABLED <<ShutdownResume>>_req)
    /\ [][(capture_task' = "cancelling" /\ capture_task # "cancelling") =>
             game_timer_task \notin {"cancelling", "cancelled"}]_vars
    /\ [][(game_timer_task' = "cancelling" /\ game_timer_task # "cancelling") =>
             ~Active(capture_task)]_vars
    /\ [][file_closes' # file_closes => (exited' /\ ~exited)]_vars
    /\ [][(exited' /\ ~exited /\ mounted) =>
             /\ ~Active(capture_task') /\ ~Uncancelled(capture_task')
             /\ ~Active(game_timer_task') /\ ~Uncancelled(game_timer_task')]_vars

\* a game capture with a capture file was shut down: both tasks were
\* cancelled and have ended, the port and the file are closed
C21_Witness ==
    /\ mode = "game"
    /\ exited
    /\ capture_task = "cancelled"
    /\ game_timer_task = "cancelled"
    /\ rows # <<>>
    /\ csv_file = "closed"
    /\ file_closes = 1
    /\ ~serial_open
\* C22: the capture file, once opened by the setup, is closed on every way
\* out of the application: after a cancellation, after the capture loop
\* has ended on an error, and when a step of cleanup before the close (the
\* disconnect of the device) raises.
C22_SinkAlwaysClosed == exited => csv_file # "open"

\* the application has exited on a failed disconnect with rows written and
\* the capture file still open
C22_Witness ==
    /\ exited
    /\ "shutdown_error" \in notified
    /\ rows # <<>>
    /\ csv_file = "open"
    /\ file_closes = 0
\* C31: a game run, live or replayed, has an active turn from the moment
\* it streams until finish_game: whenever a unit has been processed and
\* the game is not finished, current_turn is set.
C31_TurnFromGameStart ==
    (mode \in {"game", "game_file"} /\ processed # <<>>
       /\ ~game_state.is_finished) =>
        game_state.current_turn # <<>>

\* a replayed game has analysed a byte with anomalies and has no turn to
\* count them in
C31_Witness ==
    /\ mode = "game_file"
    /\ processed # <<>>
    /\ result # <<>>
    /\ ~game_state.is_finished
    /\ game_state.current_turn = <<>>
    /\ game_state.turn_history = <<>>
\* every counter of every turn, archived or active, summed
AllScores(gs) ==
    sum_scores(gs.turn_history \o gs.current_turn,
               Len(gs.turn_history) + Len(gs.current_turn))

\* nothing is analysed, written, shown or scored on a step taken while the
\* paused flag is set
C34_PausedNoOutput ==
    [][is_paused =>
         /\ position' = position
         /\ added' = added
         /\ rows' = rows
         /\ points' = points
         /\ processed' = processed
         /\ viz_update_counter' = viz_update_counter
         /\ AllScores(game_state') = AllScores(game_state)]_vars

\* nothing is pulled from the device or from the replayed file on a step
\* taken while the paused flag is set
C34_PausedNoInput ==
    [][is_paused => (dev_offset' = dev_offset /\ read_idx' = read_idx)]_vars

\* C34: while the paused flag is set an iteration of the loop only sleeps
\* and checks again: it pulls no unit from the device or the file, does not
\* advance the analyzer, writes no row, shows no point and changes neither
\* the throttle counter nor any counter of the game.
C34_PausedConsumesNothing == C34_PausedNoInput /\ C34_PausedNoOutput

\* a paused live capture has pulled a chunk from the device and dropped it
C34_Witness ==
    /\ mode \in LiveModes
    /\ is_paused
    /\ capture_task = "paused"
    /\ dev_offset > Len(added)
    /\ added # <<>>
\* C35: a replay, plain or game, takes the anomaly of each record from the
\* file and never calls the analyzer on the replayed bytes: no analyzer is
\* made, no byte is fed and the points shown are those of the records.
C35_ReplayNoReanalysis ==
    mode \in ReplayModes =>
        /\ ~analyzer
        /\ added = <<>>
        /\ position = 0
        /\ \A j \in DOMAIN points :
               points[j] = playback_point(file[processed[viz_update_frequency * j]])

\* a game replay has made an analyzer and fed it the bytes of the first
\* ten records
C35_Witness ==
    /\ mode = "game_file"
    /\ analyzer
    /\ Len(added) = 10
    /\ added = [i \in 1..10 |-> file[processed[i]].byte_value]
    /\ Len(points) = 1
\* C37: in a live or game capture with a writer the position fields of the
\* rows are 1, 2, 3, ... in row order, whatever pauses and resumes came in
\* between: the bytes dropped while paused take no position number.
C37_RowPositionsContiguous ==
    (mode \in LiveModes /\ writer) =>
        /\ Len(rows) = position
        /\ \A i \in DOMAIN rows : rows[i].position = i

\* a chunk was dropped during a pause and the next one was written: the
\* rows 1.. hold bytes that came later than the first in the device's output
C37_Witness ==
    /\ mode \in LiveModes
    /\ writer
    /\ Len(rows) >= 7
    /\ dev_offset > Len(rows)
    /\ rows[Len(rows)].byte_value = StreamByte(stream, dev_offset)
    /\ rows[1].byte_value = StreamByte(stream, dev_offset - Len(rows) + 1)
    /\ rows[1].byte_value # StreamByte(stream, 1)
\* C39: no row is written once the capture file is closed: when the file
\* is closed the capture task has ended or was never started, and from
\* then on no byte is analysed, no row is added and no write fails on the
\* closed file; rows are added to an open file only.
C39_NoWriteAfterClose ==
    /\ [](csv_file = "closed" =>
             (~Active(capture_task) /\ ~Uncancelled(capture_task)))
    /\ [][csv_file = "closed" =>
             /\ rows' = rows
             /\ added' = added
             /\ notified' = notified]_vars
    /\ [][rows' # rows => (csv_file = "open" /\ csv_file' = "open")]_vars

\* a live capture that was writing rows, with more data to come, was shut
\* down while it ran: the task was cancelled, then the file closed
C39_Witness ==
    /\ mode = "live"
    /\ ~is_paused
    /\ exited
    /\ csv_file = "closed"
    /\ capture_task = "cancelled"
    /\ Len(rows) = Len(added)
    /\ Len(rows) >= 7
    /\ dev_offset + 7 <= MaxUnits

\* C36: every value given to the visualizer lies in [-1, 1] (-1000..1000
\* thousandths): the value of every byte 0..255, every point forwarded, and
\* for every anomaly found the value a capture loop and, from the record
\* written for it, a playback loop compute.
C36_ValuesInRange ==
    /\ \A b \in 0..255 : byte_viz(b) \in -1000..1000
    /\ \A j \in DOMAIN points : points[j].value \in -1000..1000
    /\ \A i \in DOMAIN result :
           /\ viz_point(added[1], <<result[i]>>).value \in -1000..1000
           /\ playback_point(record_of(i, added[1], <<result[i]>>)).value
                  \in -1000..1000

\* an anomaly of |z_score| > 5 was forwarded: its value was clamped
C36_Witness ==
    /\ points # <<>>
    /\ result # <<>>
    /\ Abs(strongest(result).z_score) > 5000
    /\ points[1].marker = strongest(result).significance_level
    /\ Abs(points[1].value) = 1000
\* C38: the first line of a capture file is written when the writer is
\* opened and is not written again: from then on it is the line of the
\* metadata create_capture_metadata made, and read back it gives
\* total_bytes, total_anomalies and duration_seconds 0, whatever was
\* written to the file since, up to and after the close.
C38_HeaderWrittenOnce ==
    /\ [](csv_file # "none" =>
             /\ header = first_line(create_capture_metadata(
                                        DeviceStatus, window_size, sensitivity))
             /\ load_metadata(header) = ""
             /\ json_loads(header.object).total_bytes = 0
             /\ json_loads(header.object).total_anomalies = 0
             /\ json_loads(header.object).duration_seconds = 0)
    /\ [][csv_file # "none" => header' = header]_vars

\* a capture file with rows, one of them of an anomaly, has been closed:
\* its first line still counts no byte and no anomaly
C38_Witness ==
    /\ csv_file = "closed"
    /\ Len(rows) >= 7
    /\ \E i \in DOMAIN rows : rows[i].anomaly # <<>>
    /\ json_loads(header.object).total_bytes = 0
    /\ json_loads(header.object).total_anomalies = 0
    /\ json_loads(header.object).window_size = AppWindow
\* C32: the records read from a capture file are the records written to
\* it, in the same order and field for field, an optional field that was
\* None being None and one that was present being present with its value,
\* the empty significance included.
C32_RecordRoundTrip == reader => file = rows

\* a record of an anomaly of the empty tier was written and read back
\* with no significance
C32_Witness ==
    /\ reader
    /\ Len(file) = Len(rows)
    /\ \E i \in DOMAIN rows :
          /\ rows[i].anomaly_type = <<"frequency">>
          /\ rows[i].significance = <<"">>
          /\ file[i].significance = <<>>
          /\ file[i] = [rows[i] EXCEPT !.significance = <<>>]

\* a field that holds the empty string
EmptyString(record) == record.significance = <<"">>

\* the records but those of an empty string are read back as written
C32_RoundTripButEmpty ==
    reader =>
        /\ Len(file) = Len(rows)
        /\ \A i \in DOMAIN rows : ~EmptyString(rows[i]) => file[i] = rows[i]

\* C33: a capture file is the "# " line of the metadata JSON, the CSV
\* header of the 7 columns in their order, then one line per record
\* written, in write order; a reader gets the metadata of the first line
\* and, from k data lines, k records with the numbers written.
C33_FileLayout ==
    csv_file # "none" =>
        /\ header.prefix
        /\ header.json
        /\ header.object = json_dumps(create_capture_metadata(
                                          DeviceStatus, window_size, sensitivity))
        /\ load_metadata(header) = ""
        /\ json_loads(header.object) =
               create_capture_metadata(DeviceStatus, window_size, sensitivity)
        /\ Split(lines[1], ",") =
               <<<<"position">>, <<"timestamp">>, <<"byte_value">>,
                 <<"anomaly_type">>, <<"z_score">>, <<"p_value">>,
                 <<"significance">>>>
        /\ Len(lines) = 1 + Len(rows)
        /\ \A k \in DOMAIN rows :
               /\ lines[k + 1] = writerow(rows[k])
               /\ Len(Split(lines[k + 1], ",")) = 7
        /\ reader =>
               /\ Len(file) = Len(lines) - 1
               /\ \A k \in DOMAIN file :
                      /\ file[k].position = rows[k].position
                      /\ file[k].timestamp = rows[k].timestamp
                      /\ file[k].byte_value = rows[k].byte_value
                      /\ file[k].z_score = rows[k].z_score
                      /\ file[k].p_value = rows[k].p_value

\* a file of two rows, the second of an anomaly, was read: two records
C33_Witness ==
    /\ reader
    /\ window_size = 10
    /\ sensitivity = TestSensitivity
    /\ Len(lines) = 3
    /\ Len(file) = 2
    /\ file[1].position = 1
    /\ file[2].position = 12
    /\ file[2].z_score = <<-3250>>
    /\ file[1].z_score = <<>>
\* C40: when resolve_capture_path returns, the parent of the path
\* returned is a directory; for a path without a suffix that did not exist
\* the path is now a directory and the path returned is a generated
\* rng_capture_*.csv directly in it; a path with a suffix is returned
\* unchanged.
C40_ParentDirectoryExists ==
    \A call \in {resolved[i] : i \in DOMAIN resolved} :
        ~call.raised =>
            /\ is_dir(fs, Parent(call.returned))
            /\ (/\ suffix(call.path[Len(call.path)]) = <<>>
                /\ ~exists(call.before, call.path)) =>
                   /\ is_dir(fs, call.path)
                   /\ call.returned = Append(call.path, generate_timestamped_filename)
            /\ suffix(call.path[Len(call.path)]) # <<>> =>
                   call.returned = call.path

\* the path given is a file without a suffix: the path returned is in it
C40_Witness ==
    /\ resolved # <<>>
    /\ ~resolved[1].raised
    /\ resolved[1].path = <<<<"captures">>>>
    /\ <<resolved[1].path, "file">> \in fs
    /\ resolved[1].returned = Append(resolved[1].path, generate_timestamped_filename)
    /\ ~is_dir(fs, Parent(resolved[1].returned))

\* no name of the path starts with a dot, no file lies on the path and no
\* directory has the path's name with a suffix
Plain(call) ==
    /\ \A k \in DOMAIN call.path : call.path[k][1] # "."
    /\ \A a \in Ancestors(call.path) : <<a, "file">> \notin call.before
    /\ suffix(call.path[Len(call.path)]) # <<>> => ~exists(call.before, call.path)

\* for such paths the call returns and the statement holds
C40_PlainPaths ==
    \A call \in {resolved[i] : i \in DOMAIN resolved} :
        Plain(call) =>
            /\ ~call.raised
            /\ is_dir(fs, Parent(call.returned))
            /\ (/\ suffix(call.path[Len(call.path)]) = <<>>
                /\ ~exists(call.before, call.path)) =>
                   /\ is_dir(fs, call.path)
                   /\ call.returned = Append(call.path, generate_timestamped_filename)
            /\ suffix(call.path[Len(call.path)]) # <<>> =>
                   call.returned = call.path
====
